---- MODULE Spec2Model ----
(***************************************************************************)
(* Model of scripts/validate-blueprint/validate-blueprint.py: the          *)
(* BlueprintValidator's template checks.  Template text is a sequence of   *)
(* one-character strings; every regular expression of the source is kept   *)
(* as a pattern tree and matched with Python's backtracking order          *)
(* (leftmost match, greedy quantifiers, alternatives left to right).       *)
(***************************************************************************)
EXTENDS Integers, Sequences, FiniteSets, TLC

(***************************************************************************)
(* Text                                                                    *)
(***************************************************************************)
Chars(s) == [i \in 1..Len(s) |-> SubSeq(s, i, i)]

Digit == {"0", "1", "2", "3", "4", "5", "6", "7", "8", "9"}
Lower == {"a", "b", "c", "d", "e", "f", "g", "h", "i", "j", "k", "l", "m",
          "n", "o", "p", "q", "r", "s", "t", "u", "v", "w", "x", "y", "z"}
Upper == {"A", "B", "C", "D", "E", "F", "G", "H", "I", "J", "K", "L", "M",
          "N", "O", "P", "Q", "R", "S", "T", "U", "V", "W", "X", "Y", "Z"}
IdStart == Lower \cup Upper \cup {"_"}
Word == IdStart \cup Digit
Space == {" ", "\n", "\t"}

\* value[a:b] of Python, on 1-based positions: the characters a .. b-1.
Slice(s, a, b) == SubSeq(s, a, b - 1)

(***************************************************************************)
(* Pattern trees.  A node is a record with a tag t.                        *)
(***************************************************************************)
Lit(str) == [t |-> "lit", cs |-> Chars(str)]
LitSeq(cs) == [t |-> "lit", cs |-> cs]
In(S) == [t |-> "in", S |-> S]
NotIn(S) == [t |-> "notin", S |-> S]
Cat(rs) == [t |-> "cat", rs |-> rs]
Alt(rs) == [t |-> "alt", rs |-> rs]
\* r{min,} greedy (max unbounded) and r? greedy
Rep(r, min) == [t |-> "rep", r |-> r, min |-> min]
Star(r) == Rep(r, 0)
Plus(r) == Rep(r, 1)
Opt(r) == [t |-> "opt", r |-> r]
Grp(n, r) == [t |-> "grp", n |-> n, r |-> r]
WB == [t |-> "wb"]
BOS == [t |-> "bos"]
EOS == [t |-> "eos"]
NotAhead(r) == [t |-> "nla", r |-> r]
NotBehind(S) == [t |-> "nlb", S |-> S]

NoGroups == <<<<0, 0>>, <<0, 0>>>>

IsWordAt(s, i) == i >= 1 /\ i <= Len(s) /\ s[i] \in Word

RECURSIVE LitAt(_, _, _, _)
LitAt(cs, k, s, i) ==
    IF k > Len(cs) THEN TRUE
    ELSE IF i > Len(s) THEN FALSE
    ELSE IF s[i] # cs[k] THEN FALSE
    ELSE LitAt(cs, k + 1, s, i + 1)

\* Greedy repetition of a one-character class from position i: the ends,
\* longest first, down to the minimum count.
RepChar(r, s, i, g) ==
    LET ok(c) == IF r.r.t = "in" THEN c \in r.r.S ELSE c \notin r.r.S
        ends(last) ==
            IF last - i - r.min + 1 <= 0 THEN <<>>
            ELSE [k \in 1..(last - i - r.min + 1) |-> <<last - k + 1, g>>]
        first(stops) == IF stops = {} THEN Len(s) + 1
                        ELSE CHOOSE j \in stops : \A k \in stops : j <= k
    IN ends(first({j \in i..Len(s) : ~ok(s[j])}))

RECURSIVE M(_, _, _, _)
RECURSIVE MCat(_, _, _, _)
RECURSIVE MAlt(_, _, _, _, _)
RECURSIVE MRep(_, _, _, _)
RECURSIVE Each(_, _, _, _)
RECURSIVE MRepEach(_, _, _, _, _, _)

\* M(r, s, i, g): the ways r matches s from position i, in backtracking
\* order; each is <<end, groups>>, end being the position after the match.
M(r, s, i, g) ==
    CASE r.t = "lit" -> IF LitAt(r.cs, 1, s, i) THEN <<<<i + Len(r.cs), g>>>> ELSE <<>>
      [] r.t = "in" -> IF i <= Len(s) /\ s[i] \in r.S THEN <<<<i + 1, g>>>> ELSE <<>>
      [] r.t = "notin" -> IF i <= Len(s) /\ s[i] \notin r.S THEN <<<<i + 1, g>>>> ELSE <<>>
      [] r.t = "cat" -> MCat(r.rs, s, 1, <<<<i, g>>>>)
      [] r.t = "alt" -> MAlt(r.rs, 1, s, i, g)
      [] r.t = "rep" -> IF r.r.t \in {"in", "notin"}
                        THEN RepChar(r, s, i, g)
                        ELSE MRep(r, s, <<i, g>>, 0)
      [] r.t = "opt" -> M(r.r, s, i, g) \o <<<<i, g>>>>
      [] r.t = "grp" ->
            LET inner == M(r.r, s, i, g)
            IN [k \in 1..Len(inner) |->
                   <<inner[k][1], [inner[k][2] EXCEPT ![r.n] = <<i, inner[k][1]>>]>>]
      [] r.t = "wb" -> IF IsWordAt(s, i - 1) # IsWordAt(s, i) THEN <<<<i, g>>>> ELSE <<>>
      [] r.t = "bos" -> IF i = 1 THEN <<<<i, g>>>> ELSE <<>>
      [] r.t = "eos" -> IF i = Len(s) + 1 \/ (i = Len(s) /\ s[i] = "\n")
                        THEN <<<<i, g>>>> ELSE <<>>
      [] r.t = "nla" -> IF M(r.r, s, i, g) = <<>> THEN <<<<i, g>>>> ELSE <<>>
      [] r.t = "nlb" -> IF i >= 2 /\ s[i - 1] \in r.S THEN <<>> ELSE <<<<i, g>>>>

\* from every state of `from` (in order), match r
Each(r, s, from, k) ==
    IF k > Len(from) THEN <<>>
    ELSE M(r, s, from[k][1], from[k][2]) \o Each(r, s, from, k + 1)

MCat(rs, s, k, from) ==
    IF k > Len(rs) \/ from = <<>> THEN from
    ELSE MCat(rs, s, k + 1, Each(rs[k], s, from, 1))

MAlt(rs, k, s, i, g) ==
    IF k > Len(rs) THEN <<>>
    ELSE M(rs[k], s, i, g) \o MAlt(rs, k + 1, s, i, g)

\* greedy repetition: first try one more iteration (which must consume),
\* then stop here if the minimum is met
MRep(r, s, st, n) ==
    MRepEach(r, s, st, n, M(r.r, s, st[1], st[2]), 1)
    \o (IF n >= r.min THEN <<st>> ELSE <<>>)

MRepEach(r, s, st, n, once, k) ==
    IF k > Len(once) THEN <<>>
    ELSE (IF once[k][1] > st[1] THEN MRep(r, s, once[k], n + 1) ELSE <<>>)
         \o MRepEach(r, s, st, n, once, k + 1)

\* A match: [ok, a, b, g]: s[a .. b-1] matched, g the group spans.
NoMatch == [ok |-> FALSE, a |-> 0, b |-> 0, g |-> NoGroups]

MatchAt(r, s, i) ==
    LET first(ms) == IF ms = <<>> THEN NoMatch
                     ELSE [ok |-> TRUE, a |-> i, b |-> ms[1][1], g |-> ms[1][2]]
    IN first(M(r, s, i, NoGroups))

\* the leftmost match of r in s that starts at position i or later
SearchFrom(r, s, i) ==
    LET first(hits) ==
            IF hits = {} THEN NoMatch
            ELSE MatchAt(r, s, CHOOSE j \in hits : \A k \in hits : j <= k)
    IN first({j \in i..(Len(s) + 1) : M(r, s, j, NoGroups) # <<>>})

\* re.search, re.match
ReSearch(r, s) == SearchFrom(r, s, 1)
ReMatch(r, s) == MatchAt(r, s, 1)
Found(r, s) == ReSearch(r, s).ok

\* re.finditer: the non-overlapping matches, left to right
RECURSIVE FindIterFrom(_, _, _)
FindIterFrom(r, s, i) ==
    LET and_rest(m) ==
            IF ~m.ok THEN <<>>
            ELSE <<m>> \o FindIterFrom(r, s, IF m.b > m.a THEN m.b ELSE m.b + 1)
    IN and_rest(SearchFrom(r, s, i))

ReFindIter(r, s) == FindIterFrom(r, s, 1)

\* text of group n of match m ("" when the group did not take part)
GroupText(s, m, n) == Slice(s, m.g[n][1], m.g[n][2])
MatchText(s, m) == Slice(s, m.a, m.b)

\* [f(x) for x in xs], and the concatenation of the lists f(x)
MapSeq(f(_), xs) == [k \in 1..Len(xs) |-> f(xs[k])]

\* re.findall for a pattern with exactly one group / with no group
ReFindAll1(r, s) == MapSeq(LAMBDA m : GroupText(s, m, 1), ReFindIter(r, s))
ReFindAll0(r, s) == MapSeq(LAMBDA m : MatchText(s, m), ReFindIter(r, s))

\* re.sub(r, repl, s) for a replacement text without group references
RECURSIVE SubFrom(_, _, _, _)
SubFrom(r, repl, s, i) ==
    LET replaced(m) ==
            IF ~m.ok THEN Slice(s, i, Len(s) + 1)
            ELSE Slice(s, i, m.a) \o repl \o
                 (IF m.b > m.a THEN SubFrom(r, repl, s, m.b)
                  ELSE (IF m.b <= Len(s) THEN <<s[m.b]>> ELSE <<>>)
                       \o SubFrom(r, repl, s, m.b + 1))
    IN replaced(SearchFrom(r, s, i))

ReSub(r, repl, s) == SubFrom(r, repl, s, 1)

\* re.escape(name) used as a pattern: the literal text
Esc(name) == LitSeq(name)


(***************************************************************************)
(* Plain string operations of Python                                       *)
(***************************************************************************)
\* `sub in s`
Contains(sub, s) == \E i \in 1..(Len(s) - Len(sub) + 1) : LitAt(sub, 1, s, i)

\* s.rfind(sub) as a 1-based position, 0 for Python's -1
RFind(sub, s) ==
    LET last(at) == IF at = {} THEN 0 ELSE CHOOSE i \in at : \A j \in at : j <= i
    IN last({i \in 1..(Len(s) - Len(sub) + 1) : LitAt(sub, 1, s, i)})

\* s.count(sub): non-overlapping occurrences, left to right
RECURSIVE CountFrom(_, _, _)
CountFrom(sub, s, i) ==
    IF i + Len(sub) - 1 > Len(s) THEN 0
    ELSE IF LitAt(sub, 1, s, i) THEN 1 + CountFrom(sub, s, i + Len(sub))
    ELSE CountFrom(sub, s, i + 1)

Count(sub, s) == CountFrom(sub, s, 1)

\* the number of characters c in s
CountChar(c, s) == Cardinality({i \in 1..Len(s) : s[i] = c})

\* s.startswith(prefix)
StartsWith(s, prefix) == LitAt(prefix, 1, s, 1)

\* s.strip()
RECURSIVE LStrip(_)
LStrip(s) == IF s # <<>> /\ s[1] \in Space THEN LStrip(Tail(s)) ELSE s
RECURSIVE RStrip(_)
RStrip(s) ==
    IF s # <<>> /\ s[Len(s)] \in Space THEN RStrip(SubSeq(s, 1, Len(s) - 1)) ELSE s
Strip(s) == RStrip(LStrip(s))

\* s.split("\n")
RECURSIVE SplitOn(_, _)
SplitOn(c, s) ==
    LET cut(i) == <<SubSeq(s, 1, i - 1)>> \o SplitOn(c, SubSeq(s, i + 1, Len(s)))
        split(at) == IF at = {} THEN <<s>>
                     ELSE cut(CHOOSE k \in at : \A j \in at : k <= j)
    IN split({i \in 1..Len(s) : s[i] = c})

\* the elements of a sequence, and a sequence without repetitions
Range(f) == {f[i] : i \in DOMAIN f}
RECURSIVE Concat(_)
Concat(ss) == IF ss = <<>> THEN <<>> ELSE ss[1] \o Concat(Tail(ss))
FlatMap(f(_), xs) == Concat(MapSeq(f, xs))

(***************************************************************************)
(* Diagnostics: the message of a self.errors.append / self.warnings.append *)
(* is kept as its kind and the values interpolated into it, in the order   *)
(* of the f-string.                                                        *)
(***************************************************************************)
Diag(kind, args, nums) == [kind |-> kind, args |-> args, nums |-> nums]

(***************************************************************************)
(* Vocabulary tables                                                       *)
(***************************************************************************)
JINJA2_BUILTINS ==
    {Chars(n) : n \in {
        "true", "false", "none", "True", "False", "None", "if", "else", "elif",
        "endif", "for", "endfor", "in", "not", "and", "or", "is", "set", "endset",
        "macro", "endmacro", "call", "endcall", "filter", "endfilter", "block",
        "endblock", "extends", "include", "import", "from", "as", "with",
        "endwith", "do", "continue", "break", "defined", "undefined", "number",
        "string", "mapping", "iterable", "callable", "sequence", "sameas",
        "escaped", "even", "odd", "divisibleby", "lower", "upper", "abs", "attr",
        "batch", "capitalize", "center", "count", "default", "dictsort", "escape",
        "filesizeformat", "first", "float", "forceescape", "format", "groupby",
        "indent", "int", "items", "join", "last", "length", "list", "map", "max",
        "min", "pprint", "random", "reject", "rejectattr", "replace", "reverse",
        "round", "safe", "select", "selectattr", "slice", "sort", "split",
        "striptags", "sum", "title", "tojson", "trim", "truncate", "unique",
        "urlencode", "urlize", "wordcount", "wordwrap", "xmlattr", "states",
        "is_state", "state_attr", "is_state_attr", "has_value", "expand",
        "device_entities", "area_entities", "integration_entities", "device_attr",
        "device_id", "area_name", "area_id", "floor_id", "floor_name", "label_id",
        "label_name", "labels", "relative_time", "time_since", "timedelta",
        "strptime", "strftime", "as_timestamp", "as_datetime", "as_local",
        "as_timedelta", "today_at", "now", "utcnow", "distance", "closest", "iif",
        "log", "sin", "cos", "tan", "asin", "acos", "atan", "atan2", "sqrt", "e",
        "pi", "tau", "inf", "average", "median", "statistical_mode", "pack",
        "unpack", "ord", "base64_encode", "base64_decode", "slugify",
        "regex_match", "regex_search", "regex_replace", "regex_findall",
        "regex_findall_index", "from_json", "to_json", "value_json", "trigger",
        "this", "context", "repeat", "wait", "namespace", "item", "loop", "index",
        "index0", "cycle", "depth", "depth0", "previtem", "nextitem", "changed",
        "range", "year", "month", "day", "hour", "minute", "second",
        "microsecond", "weekday", "isoweekday", "isocalendar", "isoformat",
        "date", "time", "timestamp", "tzinfo", "tzname", "utcoffset", "dst",
        "timetuple", "state", "attributes", "entity_id", "domain", "object_id",
        "name", "last_changed", "last_updated", "last_reported", "context_id",
        "platform", "event", "to_state", "from_state", "idx", "id", "description",
        "alias", "friendly_name", "icon", "unit_of_measurement", "device_class",
        "brightness", "color_temp", "hs_color", "rgb_color", "xy_color",
        "temperature", "humidity", "pressure", "position", "current_position",
        "current_temperature", "target_temperature", "hvac_mode", "hvac_action",
        "fan_mode", "swing_mode", "preset_mode", "speed", "percentage",
        "battery_level", "battery", "power", "voltage", "current", "energy",
        "elevation", "azimuth", "rising", "setting", "next_rising", "next_setting"}}

jinja_builtins ==
    {Chars(n) : n \in {
        "true", "false", "none", "True", "False", "None", "now", "utcnow",
        "as_timestamp", "states", "is_state", "state_attr", "has_value", "expand",
        "device_entities", "area_entities", "integration_entities", "device_attr",
        "area_name", "area_id", "relative_time", "timedelta", "strptime",
        "as_datetime", "as_local", "today_at", "trigger", "this", "repeat",
        "context", "set", "if", "else", "elif", "endif", "for", "endfor", "in",
        "not", "and", "or", "is", "defined", "undefined", "number", "string",
        "mapping", "iterable", "int", "float", "round", "abs", "default",
        "length", "log", "min", "max"}}

\* the constants with tau forgotten
ConstantsWithoutTau == {Chars("pi"), Chars("e")}

MathConstants == {Chars("pi"), Chars("e"), Chars("tau")}

(***************************************************************************)
(* _check_variable_ordering and the reference test it shares with          *)
(* _check_variable_dependency_chains                                       *)
(***************************************************************************)
\* rf"\b{re.escape(other_var)}\b"
WordPattern(other_var) == Cat(<<WB, Esc(other_var), WB>>)

\* the in_string heuristic: for one of the quote characters, an odd number
\* of it precedes the match and at least one follows it
InString(value, m) ==
    \E quote \in {"'", "\""} :
        /\ CountChar(quote, Slice(value, 1, m.a)) % 2 = 1
        /\ \E i \in m.b..Len(value) : value[i] = quote

\* the opener test: the last "{{" or "{%" before the match exists and no
\* "}}" or "%}" lies between it and the match
OpenBefore(value, m) ==
    LET later(a, b) == IF a > b THEN a ELSE b
        clear(between) ==
            ~Contains(<<"}", "}">>, between) /\ ~Contains(<<"%", "}">>, between)
        since(last_open) == last_open # 0 /\ clear(Slice(value, last_open, m.a))
        opened(before) ==
            since(later(RFind(<<"{", "{">>, before), RFind(<<"{", "%">>, before)))
    IN opened(Slice(value, 1, m.a))

\* in_jinja_block: some match of the name is outside a string by the quote
\* heuristic and after an unclosed opener
ReferencesInBlock(value, other_var) ==
    LET some(ms) == \E k \in 1..Len(ms) : ~InString(value, ms[k]) /\ OpenBefore(value, ms[k])
    IN some(ReFindIter(WordPattern(other_var), value))

ForwardRefError(var_name, other_var) == Diag("forward_reference", <<var_name, other_var>>, <<>>)

RECURSIVE OrderingFrom(_, _, _, _, _)
OrderingFrom(var_name, value, defined_vars, var_order, k) ==
    IF k > Len(var_order) THEN <<>>
    ELSE LET other_var == var_order[k]
             here == IF /\ other_var # var_name
                        /\ other_var \notin jinja_builtins
                        /\ ReferencesInBlock(value, other_var)
                        /\ other_var \notin defined_vars
                     THEN <<ForwardRefError(var_name, other_var)>>
                     ELSE <<>>
         IN here \o OrderingFrom(var_name, value, defined_vars, var_order, k + 1)

\* the errors _check_variable_ordering appends
check_variable_ordering(var_name, value, defined_vars, var_order) ==
    OrderingFrom(var_name, value, defined_vars, var_order, 1)

(***************************************************************************)
(* _check_variable_dependency_chains.  var_names is a Python set: the      *)
(* order in which `for other_var in var_names` visits it is not fixed by   *)
(* the language (string hashing is seeded per process), so it is the       *)
(* parameter set_order, a permutation of the names.                        *)
(***************************************************************************)
Orders(S) ==
    {p \in [1..Cardinality(S) -> S] : \A a, b \in 1..Cardinality(S) : p[a] = p[b] => a = b}

\* append x unless the sequence holds it already (a dict key inserted once)
AddKey(keys, x) == IF x \in Range(keys) THEN keys ELSE Append(keys, x)

\* var_refs[var_name], for the variable at index i
VarRefs(variables, i) ==
    IF ~variables[i].str THEN {}
    ELSE {variables[j].name : j \in
            {j \in 1..Len(variables) :
                /\ variables[j].name # variables[i].name
                /\ variables[j].name \notin jinja_builtins
                /\ ReferencesInBlock(variables[i].value, variables[j].name)}}

\* the keys of var_used_by in insertion order
RECURSIVE UsedByKeys(_, _, _, _, _)
UsedByKeys(refs, set_order, i, j, keys) ==
    IF i > Len(refs) THEN keys
    ELSE IF j > Len(set_order) THEN UsedByKeys(refs, set_order, i + 1, 1, keys)
    ELSE UsedByKeys(refs, set_order, i, j + 1,
                    IF set_order[j] \in refs[i] THEN AddKey(keys, set_order[j]) ELSE keys)

PersistentHelperNames == {Chars("_raw_"), Chars("_is_"), Chars("_has_")}

IsHelperName(name) == StartsWith(name, <<"_">>)

RECURSIVE GroupByUser(_, _, _)
\* chains_by_user as a sequence of <<user, helpers>> in insertion order
GroupByUser(helper_chains, k, acc) ==
    IF k > Len(helper_chains) THEN acc
    ELSE LET helper == helper_chains[k][1]
             user == helper_chains[k][2]
             at == {n \in 1..Len(acc) : acc[n][1] = user}
         IN GroupByUser(helper_chains, k + 1,
                IF at = {} THEN Append(acc, <<user, <<helper>>>>)
                ELSE [acc EXCEPT ![CHOOSE n \in at : TRUE] =
                                    <<user, Append(acc[CHOOSE n \in at : TRUE][2], helper)>>])

\* the warnings _check_variable_dependency_chains appends
check_variable_dependency_chains(variables, set_order) ==
    LET helper_chains(refs, keys) ==
            LET refs_of(name) ==
                    LET at == {i \in 1..Len(variables) : variables[i].name = name}
                    IN IF at = {} THEN {} ELSE refs[CHOOSE i \in at : TRUE]
                used_by(name) ==
                    {variables[i].name : i \in {i \in 1..Len(variables) : name \in refs[i]}}
                single_use(name) ==
                    name \in Range(keys) /\ Cardinality(used_by(name)) = 1
                is_chain(name) ==
                    /\ Cardinality(used_by(name)) = 1
                    /\ IsHelperName(name)
                    /\ name \notin PersistentHelperNames
                    /\ \E ref \in refs_of(name) : IsHelperName(ref) /\ single_use(ref)
            IN MapSeq(LAMBDA helper : <<helper, CHOOSE u \in used_by(helper) : TRUE>>,
                      SelectSeq(keys, is_chain))
        chains_by_user(refs) ==
            GroupByUser(helper_chains(refs, UsedByKeys(refs, set_order, 1, 1, <<>>)), 1, <<>>)
        of_refs(refs) ==
            MapSeq(LAMBDA c : Diag("helper_chain", <<c[1]>> \o c[2], <<>>),
                   SelectSeq(chains_by_user(refs), LAMBDA c : Len(c[2]) >= 2))
    IN of_refs([i \in 1..Len(variables) |-> VarRefs(variables, i)])

(***************************************************************************)
(* Patterns shared by the numeric checks                                   *)
(***************************************************************************)
WS == Star(In(Space))
WS1 == Plus(In(Space))
\* [a-zA-Z_][a-zA-Z0-9_]*
Ident == Cat(<<In(IdStart), Star(In(Word))>>)
\* \d+\.?\d*
Number == Cat(<<Plus(In(Digit)), Opt(Lit(".")), Star(In(Digit))>>)
\* \{\{([^}]+)\}\}
ExprBlock == Cat(<<Lit("{{"), Grp(1, Plus(NotIn({"}"}))), Lit("}}")>>)
\* \{%([^%]+)%\}
CtrlBlock == Cat(<<Lit("{%"), Grp(1, Plus(NotIn({"%"}))), Lit("%}")>>)

\* float(text) > 0 for a text matched by \d+\.?\d*
PositiveLiteral(text) == \E i \in 1..Len(text) : text[i] \in (Digit \ {"0"})

\* the pre-pass of _validate_variables: | float(X) or | int(X) with X > 0
DefaultPattern ==
    Cat(<<Lit("|"), WS, Alt(<<Lit("float"), Lit("int")>>), WS, Lit("("), WS, Grp(1, Number)>>)

HasNonzeroDefault(value) ==
    LET positive(m) == m.ok /\ PositiveLiteral(GroupText(value, m, 1))
    IN positive(ReSearch(DefaultPattern, value))

(***************************************************************************)
(* _check_math_function_safety                                             *)
(***************************************************************************)
\* log\s*\(\s*(\w+)\s*\)
LogCall == Cat(<<Lit("log"), WS, Lit("("), WS, Grp(1, Plus(In(Word))), WS, Lit(")")>>)

\* {var}\s*>\s*0|{var}\s*is\s+number
LogGuard(var) ==
    Alt(<<Cat(<<Esc(var), WS, Lit(">"), WS, Lit("0")>>),
          Cat(<<Esc(var), WS, Lit("is"), WS1, Lit("number")>>)>>)

\* the operand pattern without the optional blanks: /([a-zA-Z_][a-zA-Z0-9_]*)
DivOperandAdjacent == Cat(<<Lit("/"), Grp(1, Ident)>>)

\* /\s*\(?\s*([a-zA-Z_][a-zA-Z0-9_]*)
DivOperand == Cat(<<Lit("/"), WS, Opt(Lit("(")), WS, Grp(1, Ident)>>)

\* {% set {var}\s*=   and   {% set {var}\s*=\s*([^%]+)%}
LocalSetPattern(var) == Cat(<<Lit("{% set "), Esc(var), WS, Lit("=")>>)
LocalSetSource(var) ==
    Cat(<<Lit("{% set "), Esc(var), WS, Lit("="), WS, Grp(1, Plus(NotIn({"%"}))), Lit("%}")>>)

\* ^\s*\d+\s*\+   and   ^\s*\d+\.\d+\s*\+
ConstPlus == Cat(<<BOS, WS, Plus(In(Digit)), WS, Lit("+")>>)
DecimalPlus == Cat(<<BOS, WS, Plus(In(Digit)), Lit("."), Plus(In(Digit)), WS, Lit("+")>>)

\* {sv}\s+is\s+number
IsNumberTest(sv) == Cat(<<Esc(sv), WS1, Lit("is"), WS1, Lit("number")>>)

SetKeywords == {Chars("set"), Chars("if"), Chars("else"), Chars("endif")}

\* the local-set exemption: the variable is set in the field from a source
\* of the form constant + ..., or from sources that all have a number test
LocalSetGuarded(var, value) ==
    LET all_tested(source_vars) ==
            \A k \in 1..Len(source_vars) :
                source_vars[k] \in SetKeywords
                \/ Found(IsNumberTest(source_vars[k]), value)
        safe(source_expr) ==
            \/ ReMatch(ConstPlus, source_expr).ok
            \/ ReMatch(DecimalPlus, source_expr).ok
            \/ all_tested(ReFindAll1(Grp(1, Ident), source_expr))
        guarded(set_match) == set_match.ok /\ safe(GroupText(value, set_match, 1))
    IN /\ Found(LocalSetPattern(var), value)
       /\ guarded(ReSearch(LocalSetSource(var), value))

\* {var}\s*\|\s*(?:float|int)\s*\(\s*(\d+\.?\d*)
VarDefaultPattern(var) == Cat(<<Esc(var), WS, DefaultPattern>>)

VarHasNonzeroDefault(var, value) ==
    LET positive(m) == m.ok /\ PositiveLiteral(GroupText(value, m, 1))
    IN positive(ReSearch(VarDefaultPattern(var), value))

\* the five alternatives of guard_pattern
DivGuard(var) ==
    Alt(<<Cat(<<Lit("("), Esc(var), Star(NotIn({")"})), Lit(")"), WS, Lit(">"), WS, Lit("0")>>),
          Cat(<<Esc(var), WS, Lit(">"), WS, Lit("0")>>),
          Cat(<<Esc(var), WS1, Lit("is"), WS1, Lit("number")>>),
          Cat(<<Esc(var), WS, Lit("<="), WS, Lit("0")>>),
          Cat(<<Esc(var), WS, Lit("=="), WS, Lit("0")>>)>>)

\* {var}\s*\(
CallOf(var) == Cat(<<Esc(var), WS, Lit("(")>>)

DivisionWarning(var_name, var) == Diag("division", <<var_name, var>>, <<>>)
LogWarning(var_name, var) == Diag("log", <<var_name, var>>, <<>>)

\* whether the division by var found in block is warned about
DivisionUnguarded(var, block, value, nonzero) ==
    /\ var \notin MathConstants
    /\ ~(nonzero.has /\ var \in nonzero.names)
    /\ ~LocalSetGuarded(var, value)
    /\ ~VarHasNonzeroDefault(var, value)
    /\ ~Found(DivGuard(var), value)
    /\ ~Found(CallOf(var), block)

\* the warnings _check_math_function_safety appends
check_math_function_safety(var_name, value, nonzero) ==
    LET of_block(block) ==
            MapSeq(LAMBDA var : DivisionWarning(var_name, var),
                   SelectSeq(ReFindAll1(DivOperand, block),
                             LAMBDA var : DivisionUnguarded(var, block, value, nonzero)))
    IN MapSeq(LAMBDA var : LogWarning(var_name, var),
              SelectSeq(ReFindAll1(LogCall, value),
                        LAMBDA var : ~Found(LogGuard(var), value)))
       \o FlatMap(of_block, ReFindAll1(ExprBlock, value))

(***************************************************************************)
(* _check_unsafe_math_operations                                           *)
(***************************************************************************)
\* {func}\s*\(\s*([^)]+)\)   for func = sqrt, asin, acos
FuncCall(func) ==
    Cat(<<Lit(func), WS, Lit("("), WS, Grp(1, Plus(NotIn({")"}))), Lit(")")>>)

\* ^\d+\.?\d*$
PositiveNumberOnly == Cat(<<BOS, Number, EOS>>)

\* the six guard_patterns of the sqrt check
SqrtGuards(var) ==
    <<Cat(<<Lit("max"), WS, Lit("("), WS, Lit("0"), WS, Lit(","), WS, Esc(var)>>),
      Cat(<<Lit("max"), WS, Lit("("), WS, Esc(var), WS, Lit(","), WS, Lit("0")>>),
      Cat(<<Lit("abs"), WS, Lit("("), WS, Esc(var), WS, Lit(")")>>),
      Cat(<<Esc(var), WS, Lit(">="), WS, Lit("0")>>),
      Cat(<<Esc(var), WS, Lit(">"), WS, Lit("0")>>),
      Cat(<<Lit("if"), WS1, Esc(var), WS, Lit(">="), WS, Lit("0")>>)>>

SqrtWarning(var_name, arg_stripped, var) == Diag("sqrt", <<var_name, arg_stripped, var>>, <<>>)

\* the warning (or none) for one sqrt(...) argument
SqrtCheck(var_name, arg, value) ==
    LET has_guard(var) ==
            \E k \in 1..Len(SqrtGuards(var)) : Found(SqrtGuards(var)[k], value)
        of_var(arg_stripped, var) ==
            IF has_guard(var) THEN <<>> ELSE <<SqrtWarning(var_name, arg_stripped, var)>>
        of_match(arg_stripped, var_match) ==
            IF ReMatch(PositiveNumberOnly, arg_stripped).ok \/ ~var_match.ok THEN <<>>
            ELSE of_var(arg_stripped, GroupText(arg_stripped, var_match, 1))
        of_arg(arg_stripped) == of_match(arg_stripped, ReSearch(Grp(1, Ident), arg_stripped))
    IN of_arg(Strip(arg))

\* %\s*\(?\s*([a-zA-Z_][a-zA-Z0-9_]*)
ModOperand == Cat(<<Lit("%"), WS, Opt(Lit("(")), WS, Grp(1, Ident)>>)

\* {var}\s*!=\s*0|{var}\s*>\s*0|{var}\s+is\s+number
ModGuard(var) ==
    Alt(<<Cat(<<Esc(var), WS, Lit("!="), WS, Lit("0")>>),
          Cat(<<Esc(var), WS, Lit(">"), WS, Lit("0")>>),
          Cat(<<Esc(var), WS1, Lit("is"), WS1, Lit("number")>>)>>)

ModuloWarning(var_name, var) == Diag("modulo", <<var_name, var>>, <<>>)

ModuloUnguarded(var, value, nonzero) ==
    /\ var \notin MathConstants
    /\ var \notin JINJA2_BUILTINS
    /\ ~(nonzero.has /\ var \in nonzero.names)
    /\ ~Found(ModGuard(var), value)

\* ^-?[01]\.?\d*$
UnitLiteral ==
    Cat(<<BOS, Opt(Lit("-")), In({"0", "1"}), Opt(Lit(".")), Star(In(Digit)), EOS>>)

\* -1 <= float(text) <= 1 for a text matched by ^-?[01]\.?\d*$
InUnitRange(text) ==
    LET t == IF text[1] = "-" THEN Tail(text) ELSE text
        rest == Tail(t)
    IN IF rest # <<>> /\ rest[1] = "."
       THEN t[1] = "0" \/ \A i \in 2..Len(rest) : rest[i] = "0"
       ELSE \* an integer literal: at most 1 when only the last digit may be 1
            \/ Len(t) = 1
            \/ /\ \A i \in 1..(Len(t) - 1) : t[i] = "0"
               /\ t[Len(t)] \in {"0", "1"}

\* the clamp_patterns of the asin/acos check
ClampPatterns(var) ==
    <<Cat(<<Lit("max"), WS, Lit("("), WS, Lit("-1"), WS, Lit(","), WS, Lit("min"), WS,
            Lit("("), WS, Lit("1"), WS, Lit(","), WS, Esc(var)>>),
      Cat(<<Lit("min"), WS, Lit("("), WS, Lit("1"), WS, Lit(","), WS, Lit("max"), WS,
            Lit("("), WS, Lit("-1"), WS, Lit(","), WS, Esc(var)>>),
      Cat(<<Lit("|"), WS, Lit("clamp")>>)>>

TrigWarning(var_name, func, arg_stripped, var) ==
    Diag("trig_range", <<var_name, Chars(func), arg_stripped, var>>, <<>>)

\* the warning (or none) for one asin(...) / acos(...) argument
TrigCheck(var_name, func, arg, value) ==
    LET has_clamp(var) ==
            \E k \in 1..Len(ClampPatterns(var)) : Found(ClampPatterns(var)[k], value)
        of_var(arg_stripped, var) ==
            IF has_clamp(var) THEN <<>>
            ELSE <<TrigWarning(var_name, func, arg_stripped, var)>>
        of_match(arg_stripped, var_match) ==
            IF (ReMatch(UnitLiteral, arg_stripped).ok /\ InUnitRange(arg_stripped))
               \/ ~var_match.ok
            THEN <<>>
            ELSE of_var(arg_stripped, GroupText(arg_stripped, var_match, 1))
        of_arg(arg_stripped) == of_match(arg_stripped, ReSearch(Grp(1, Ident), arg_stripped))
    IN of_arg(Strip(arg))

\* the warnings _check_unsafe_math_operations appends
check_unsafe_math_operations(var_name, value, nonzero) ==
    LET of_block(block) ==
            MapSeq(LAMBDA var : ModuloWarning(var_name, var),
                   SelectSeq(ReFindAll1(ModOperand, block),
                             LAMBDA var : ModuloUnguarded(var, value, nonzero)))
        trig(func) ==
            FlatMap(LAMBDA arg : TrigCheck(var_name, func, arg, value),
                    ReFindAll1(FuncCall(func), value))
    IN FlatMap(LAMBDA arg : SqrtCheck(var_name, arg, value),
               ReFindAll1(FuncCall("sqrt"), value))
       \o FlatMap(of_block, ReFindAll1(ExprBlock, value))
       \o trig("asin") \o trig("acos")

(***************************************************************************)
(* _check_type_mismatch_in_filters                                         *)
(***************************************************************************)
NumberFilters == {Chars(n) : n \in {
    "int", "float", "length", "count", "round", "abs", "sum", "max", "min",
    "average", "median", "as_timestamp"}}
StringFilters == {Chars(n) : n \in {
    "string", "join", "lower", "upper", "title", "capitalize", "trim", "replace",
    "slugify", "tojson", "to_json"}}
ListFilters == {Chars(n) : n \in {
    "list", "split", "sort", "unique", "select", "reject", "map", "batch"}}
AnyFilters == {Chars(n) : n \in {"first", "last", "from_json"}}
BooleanFilters == {Chars("bool")}

\* filter_name in self.TYPE_CHANGING_FILTERS, and its entry
IsTypeChanging(f) ==
    f \in NumberFilters \cup StringFilters \cup ListFilters \cup AnyFilters \cup BooleanFilters
TYPE_CHANGING_FILTERS(f) ==
    IF f \in NumberFilters THEN "number"
    ELSE IF f \in StringFilters THEN "string"
    ELSE IF f \in ListFilters THEN "list"
    ELSE IF f \in BooleanFilters THEN "boolean"
    ELSE "any"

\* the filters that expect a string
StringOnlyFilters == {Chars(n) : n \in {
    "lower", "upper", "capitalize", "title", "split", "replace", "strip", "trim"}}

\* ([^|{}]+(?:\|[^|{}]+)+)
NotPipeBrace == Plus(NotIn({"|", "{", "}"}))
FilterChain == Grp(1, Cat(<<NotPipeBrace, Plus(Cat(<<Lit("|"), NotPipeBrace>>))>>))

StringFilterWarning(var_name, filter_name, prev_filter) ==
    Diag("string_filter_on_number", <<var_name, filter_name, prev_filter>>, <<>>)

\* the walk over parts[1:] of one chain; current_type "none" is Python's None
RECURSIVE ChainWalk(_, _, _, _, _)
ChainWalk(var_name, parts, i, current_type, prev_filter) ==
    LET of_filter(filter_name) ==
            IF ~IsTypeChanging(filter_name)
            THEN ChainWalk(var_name, parts, i + 1, current_type, prev_filter)
            ELSE (IF current_type = "number" /\ filter_name \in StringOnlyFilters
                  THEN <<StringFilterWarning(var_name, filter_name, prev_filter)>>
                  ELSE <<>>)
                 \o ChainWalk(var_name, parts, i + 1,
                              TYPE_CHANGING_FILTERS(filter_name), filter_name)
        of_match(filter_match) ==
            IF ~filter_match.ok
            THEN ChainWalk(var_name, parts, i + 1, current_type, prev_filter)
            ELSE of_filter(GroupText(parts[i], filter_match, 1))
    IN IF i > Len(parts) THEN <<>>
       ELSE of_match(ReMatch(Grp(1, Plus(In(Word))), parts[i]))

ChainWarnings(var_name, chain) ==
    LET walk(parts) ==
            IF Len(parts) < 2 THEN <<>> ELSE ChainWalk(var_name, parts, 2, "none", <<>>)
    IN walk(MapSeq(Strip, SplitOn("|", chain)))

\* states\s*\([^)]+\)\s*\|\s*round
StatesRound ==
    Cat(<<Lit("states"), WS, Lit("("), Plus(NotIn({")"})), Lit(")"), WS, Lit("|"), WS,
          Lit("round")>>)
\* {accessor}\s*\([^)]+\)\s*\|\s*(?:float|int)\s*\([^)]*\)\s*\|\s*{filter}
Converted(accessor, filter) ==
    Cat(<<Lit(accessor), WS, Lit("("), Plus(NotIn({")"})), Lit(")"), WS, Lit("|"), WS,
          Alt(<<Lit("float"), Lit("int")>>), WS, Lit("("), Star(NotIn({")"})), Lit(")"), WS,
          Lit("|"), WS, LitSeq(filter)>>)
\* state_attr\s*\([^)]+\)\s*\|\s*(round|abs)\b
StateAttrNumeric ==
    Cat(<<Lit("state_attr"), WS, Lit("("), Plus(NotIn({")"})), Lit(")"), WS, Lit("|"), WS,
          Grp(1, Alt(<<Lit("round"), Lit("abs")>>)), WB>>)

StatesRoundWarning(var_name) == Diag("states_round", <<var_name>>, <<>>)
StateAttrWarning(var_name, filter_used) == Diag("state_attr_numeric", <<var_name, filter_used>>, <<>>)

\* the warnings _check_type_mismatch_in_filters appends
check_type_mismatch_in_filters(var_name, value) ==
    FlatMap(LAMBDA chain : ChainWarnings(var_name, chain), ReFindAll1(FilterChain, value))
    \o (IF Found(StatesRound, value) /\ ~Found(Converted("states", Chars("round")), value)
        THEN <<StatesRoundWarning(var_name)>> ELSE <<>>)
    \o MapSeq(LAMBDA filter_used : StateAttrWarning(var_name, filter_used),
              SelectSeq(ReFindAll1(StateAttrNumeric, value),
                        LAMBDA filter_used :
                            ~Found(Converted("state_attr", filter_used), value)))

(***************************************************************************)
(* _extract_variable_references and _check_undefined_variable_references   *)
(***************************************************************************)
\* '[^']*'   and   "[^"]*"
SingleQuoted == Cat(<<Lit("'"), Star(NotIn({"'"})), Lit("'")>>)
DoubleQuoted == Cat(<<Lit("\""), Star(NotIn({"\""})), Lit("\"")>>)
\* \b\d+\.?\d*\b
NumericLiteral == Cat(<<WB, Number, WB>>)
\* \.([a-zA-Z_][a-zA-Z0-9_]*)
AttributeAccess == Cat(<<Lit("."), Grp(1, Ident)>>)
\* \b([a-zA-Z_][a-zA-Z0-9_]*)\s*=
KeywordArgument == Cat(<<WB, Grp(1, Ident), WS, Lit("=")>>)
\* (?<![.\w])([a-zA-Z_][a-zA-Z0-9_]*)\b
WordToken == Cat(<<NotBehind(Word \cup {"."}), Grp(1, Ident), WB>>)

ShortTokensKept == {Chars(n) : n \in {"e", "x", "y", "z", "t", "s", "n"}}
OperatorWords == {Chars(n) : n \in {"eq", "ne", "lt", "gt", "le", "ge"}}

\* the set _extract_variable_references returns
extract_variable_references(block) ==
    LET cleaned1 == ReSub(SingleQuoted, <<>>, block)
        cleaned2 == ReSub(DoubleQuoted, <<>>, cleaned1)
        cleaned3 == ReSub(NumericLiteral, <<>>, cleaned2)
        cleaned4 == ReSub(AttributeAccess, <<>>, cleaned3)
        cleaned == ReSub(KeywordArgument, <<"=">>, cleaned4)
        word_tokens == ReFindAll1(WordToken, cleaned)
    IN {token \in Range(word_tokens) :
            /\ ~(Len(token) <= 1 /\ token \notin ShortTokensKept)
            /\ token \notin OperatorWords}

\* \{%\s*set\s+(\w+)\s*=
LocalSet ==
    Cat(<<Lit("{%"), WS, Lit("set"), WS1, Grp(1, Plus(In(Word))), WS, Lit("=")>>)
\* \{%\s*for\s+(\w+)(?:\s*,\s*(\w+))?\s+in\s+
ForLoop ==
    Cat(<<Lit("{%"), WS, Lit("for"), WS1, Grp(1, Plus(In(Word))),
          Opt(Cat(<<WS, Lit(","), WS, Grp(2, Plus(In(Word)))>>)), WS1, Lit("in"), WS1>>)

\* the names bound by {% set %} and {% for %} in the field
LocalBindings(value) ==
    LET bound(for_loops) ==
            {GroupText(value, for_loops[k], 1) : k \in 1..Len(for_loops)}
            \cup {GroupText(value, for_loops[k], 2) :
                     k \in {k \in 1..Len(for_loops) : for_loops[k].g[2] # <<0, 0>>}}
    IN Range(ReFindAll1(LocalSet, value)) \cup bound(ReFindIter(ForLoop, value))

\* \b{token}\s*\(   and   \|\s*{token}\b
FuncPattern(token) == Cat(<<WB, Esc(token), WS, Lit("(")>>)
FilterPattern(token) == Cat(<<Lit("|"), WS, Esc(token), WB>>)

UndefinedError(var_name, token) == Diag("undefined_reference", <<var_name, token>>, <<>>)

\* the tokens of one block that are reported
ReportedTokens(var_name, block, all_available) ==
    {token \in extract_variable_references(block) :
        /\ token \notin all_available
        /\ ~Contains(<<".">>, var_name)
        /\ ~Found(FuncPattern(token), block)
        /\ ~Found(FilterPattern(token), block)}

\* the sequences of a set's elements, one per iteration order of the set
SeqsOf(S) == {[k \in 1..Cardinality(S) |-> p[k]] : p \in Orders(S)}

\* all ways to append, block after block, one iteration order of each set
RECURSIVE BlockOrders(_, _)
BlockOrders(sets, k) ==
    IF k > Len(sets) THEN {<<>>}
    ELSE {a \o b : a \in SeqsOf(sets[k]), b \in BlockOrders(sets, k + 1)}

\* The errors _check_undefined_variable_references appends.  The tokens of a
\* block are a Python set, visited in an order the language does not fix:
\* the result is the set of the error sequences that can be appended.
check_undefined_variable_references(var_name, value, context_vars, defined_variables) ==
    LET errors_of(orders) ==
            {MapSeq(LAMBDA token : UndefinedError(var_name, token), o) : o \in orders}
        of_blocks(jinja_blocks, all_available) ==
            errors_of(BlockOrders(
                MapSeq(LAMBDA block : ReportedTokens(var_name, block, all_available),
                       jinja_blocks), 1))
    IN of_blocks(ReFindAll1(ExprBlock, value) \o ReFindAll1(CtrlBlock, value),
                 JINJA2_BUILTINS \cup context_vars \cup defined_variables
                    \cup LocalBindings(value))

(***************************************************************************)
(* _check_jinja2_delimiter_balance and _check_control_block_balance        *)
(***************************************************************************)
\* content[:pos].count("\n") + 1 for a 1-based position pos
LineOf(content, pos) == CountChar("\n", Slice(content, 1, pos)) + 1

\* the running balance tested with <= 0 in place of < 0
RECURSIVE FirstNotPositive(_, _, _, _, _)
FirstNotPositive(lines, open_tag, close_tag, line_num, running_balance) ==
    LET at(balance) ==
            IF balance <= 0 THEN line_num
            ELSE FirstNotPositive(lines, open_tag, close_tag, line_num + 1, balance)
    IN IF line_num > Len(lines) THEN 0
       ELSE at(running_balance + Count(open_tag, lines[line_num])
                               - Count(close_tag, lines[line_num]))

\* the first line at which the running balance is negative, 0 when none
RECURSIVE FirstImbalance(_, _, _, _, _)
FirstImbalance(lines, open_tag, close_tag, line_num, running_balance) ==
    LET at(balance) ==
            IF balance < 0 THEN line_num
            ELSE FirstImbalance(lines, open_tag, close_tag, line_num + 1, balance)
    IN IF line_num > Len(lines) THEN 0
       ELSE at(running_balance + Count(open_tag, lines[line_num])
                               - Count(close_tag, lines[line_num]))

\* (open_tag, close_tag) of jinja_patterns, in order
jinja_patterns == <<<<Chars("{{"), Chars("}}")>>,
                    <<Chars("{%"), Chars("%}")>>,
                    <<Chars("{#"), Chars("#}")>>>>

\* a check of one delimiter pair that never looks for the line
PairBalanceAtEnd(content, open_tag, close_tag) ==
    IF Count(open_tag, content) = Count(close_tag, content) THEN <<>>
    ELSE <<Diag("unbalanced_at_end", <<open_tag, close_tag>>,
                <<Count(open_tag, content), Count(close_tag, content)>>)>>

\* the Error (or none) of one delimiter pair
PairBalance(content, open_tag, close_tag) ==
    LET report(open_count, close_count, first_imbalance_line) ==
            IF open_count = close_count THEN <<>>
            ELSE IF first_imbalance_line # 0
                 THEN <<Diag("unbalanced_at_line", <<open_tag, close_tag>>,
                             <<open_count, close_count, first_imbalance_line>>)>>
                 ELSE <<Diag("unbalanced_at_end", <<open_tag, close_tag>>,
                             <<open_count, close_count>>)>>
    IN report(Count(open_tag, content), Count(close_tag, content),
              FirstImbalance(SplitOn("\n", content), open_tag, close_tag, 1, 0))

TripleBrace(content, braces, kind) ==
    LET at(m) == IF m.ok THEN <<Diag(kind, <<>>, <<LineOf(content, m.a)>>)>> ELSE <<>>
    IN at(ReSearch(Lit(braces), content))

block_pairs == <<<<"if", "endif">>, <<"for", "endfor">>, <<"macro", "endmacro">>,
                 <<"call", "endcall">>, <<"filter", "endfilter">>, <<"block", "endblock">>>>

\* \{% *{open_kw}\b(?!end)   and   \{% *{close_kw}\b
OpenPattern(open_kw) ==
    Cat(<<Lit("{%"), Star(Lit(" ")), Lit(open_kw), WB, NotAhead(Lit("end"))>>)
ClosePattern(close_kw) == Cat(<<Lit("{%"), Star(Lit(" ")), Lit(close_kw), WB>>)

\* the Error (or none) of one keyword pair
KeywordBalance(content, open_kw, close_kw) ==
    LET report(open_matches, close_matches) ==
            IF Len(open_matches) = Len(close_matches) THEN <<>>
            ELSE IF Len(open_matches) > Len(close_matches)
                 THEN \* open_matches[-missing]
                      <<Diag("unclosed_block", <<Chars(open_kw)>>,
                             <<Len(open_matches), Len(close_matches),
                               LineOf(content, open_matches[Len(close_matches) + 1].a)>>)>>
                 ELSE \* close_matches[open_count], 0-based
                      <<Diag("orphan_close", <<Chars(close_kw)>>,
                             <<Len(close_matches), Len(open_matches),
                               LineOf(content, close_matches[Len(open_matches) + 1].a)>>)>>
    IN report(ReFindIter(OpenPattern(open_kw), content),
              ReFindIter(ClosePattern(close_kw), content))

\* the errors _check_control_block_balance appends
check_control_block_balance(content) ==
    FlatMap(LAMBDA pair : KeywordBalance(content, pair[1], pair[2]), block_pairs)

\* the errors _check_jinja2_delimiter_balance appends
check_jinja2_delimiter_balance(content) ==
    FlatMap(LAMBDA pair : PairBalance(content, pair[1], pair[2]), jinja_patterns)
    \o TripleBrace(content, "{{{", "triple_opening")
    \o TripleBrace(content, "}}}", "triple_closing")
    \o check_control_block_balance(content)

(***************************************************************************)
(* _validate_templates                                                     *)
(***************************************************************************)
\* \{\{[^}]*!input
InputInTemplate == Cat(<<Lit("{{"), Star(NotIn({"}"})), Lit("!input")>>)

\* the patterns of `unsupported`, in order
unsupported ==
    <<Cat(<<Lit("import"), WS1, Lit("math")>>),
      Lit("math."),
      Lit("pow("),
      Cat(<<Lit("|\\"), Star(Lit("s")), Lit("hypot")>>),
      Cat(<<Lit("|\\"), Star(Lit("s")), Lit("clip"), NotAhead(In(Word))>>)>>

\* \[[^\]]+\]\.{method}\s*\(
ListMethod(method) ==
    Cat(<<Lit("["), Plus(NotIn({"]"})), Lit("]."), Lit(method), WS, Lit("(")>>)
python_list_methods == <<"min", "max", "sort", "append", "extend">>

\* the errors and the warnings _validate_templates appends
validate_templates_errors(content) ==
    (IF Found(InputInTemplate, content) THEN <<Diag("input_in_template", <<>>, <<>>)>> ELSE <<>>)
    \o check_jinja2_delimiter_balance(content)
    \o FlatMap(LAMBDA method : IF Found(ListMethod(method), content)
                               THEN <<Diag("list_method", <<Chars(method)>>, <<>>)>>
                               ELSE <<>>,
               python_list_methods)
validate_templates_warnings(content) ==
    Concat([k \in 1..Len(unsupported) |->
               IF Found(unsupported[k], content)
               THEN <<Diag("unsupported", <<>>, <<k>>)>> ELSE <<>>])

(***************************************************************************)
(* The loaded document.  What the YAML loader returns is a graph of        *)
(* values: a value is held under a reference into a heap, so that an alias *)
(* of an anchor is the reference of the anchored value, also from inside   *)
(* that value.  Reference 0 is no value.  A tagged scalar `!input X` is    *)
(* the string "!input X".                                                  *)
(***************************************************************************)
Str(s) == [t |-> "str", s |-> Chars(s), keys |-> <<>>, items |-> <<>>]
Null == [t |-> "null", s |-> <<>>, keys |-> <<>>, items |-> <<>>]
List(items) == [t |-> "list", s |-> <<>>, keys |-> <<>>, items |-> items]
Dict(keys, items) == [t |-> "dict", s |-> <<>>, keys |-> keys, items |-> items]

\* the value under a reference; None for no value
Node(h, r) == IF r = 0 THEN Null ELSE h[r]
\* d.get(key) as a reference
Get(h, d, key) ==
    LET first(at) == IF at = {} THEN 0 ELSE h[d].items[CHOOSE i \in at : TRUE]
    IN first({i \in 1..Len(h[d].keys) : h[d].keys[i] = key})

\* an integer as an f-string prints it
RECURSIVE Digits(_)
Digits(n) ==
    IF n < 10 THEN <<SubSeq("0123456789", n + 1, n + 1)>>
    ELSE Digits(n \div 10) \o Digits(n % 10)

(***************************************************************************)
(* What a call leaves: the errors and warnings it appended, the inputs it  *)
(* recorded as used, and the exception it raised ("" when it returned).    *)
(***************************************************************************)
Out(e, w, u) == [errors |-> e, warnings |-> w, used |-> u, raised |-> ""]
Raise(exc) == [errors |-> <<>>, warnings |-> <<>>, used |-> {}, raised |-> exc]
\* a; b
Then(a, b) ==
    IF a.raised # "" THEN a
    ELSE [errors |-> a.errors \o b.errors, warnings |-> a.warnings \o b.warnings,
          used |-> a.used \cup b.used, raised |-> b.raised]
\* the statements of a loop, one after the other
RECURSIVE ThenAll(_)
ThenAll(outs) ==
    IF Len(outs) = 0 THEN Out(<<>>, <<>>, {})
    ELSE Then(outs[1], ThenAll(Tail(outs)))

\* the depth of calls at which the interpreter raises RecursionError
RecursionLimit == 4

\* _collect_input_refs, on the text of a string
collect_input_refs(value) ==
    IF StartsWith(value, Chars("!input "))
    THEN {Strip(Slice(value, 8, Len(value) + 1))} ELSE {}

RECURSIVE collect_input_refs_from_dict(_, _, _)
collect_input_refs_from_dict(h, d, depth) ==
    IF depth > RecursionLimit THEN Raise("RecursionError")
    ELSE LET of_item(r) ==
                 IF h[r].t = "str" THEN Out(<<>>, <<>>, collect_input_refs(h[r].s))
                 ELSE IF h[r].t = "dict"
                 THEN collect_input_refs_from_dict(h, r, depth + 1)
                 ELSE Out(<<>>, <<>>, {})
             of_value(r) ==
                 IF h[r].t = "list" THEN ThenAll(MapSeq(of_item, h[r].items))
                 ELSE of_item(r)
         IN ThenAll(MapSeq(of_value, h[d].items))

(***************************************************************************)
(* The checks of conditions, triggers and actions.  cx is what these read  *)
(* of the validator: heap, the values of the document; kind and variables, *)
(* the root variables section; entity_inputs, input_datetime_inputs and    *)
(* join_variables, the sets of that name; set_order, the order in which    *)
(* this process iterates a set of variable names.                          *)
(***************************************************************************)
\* self.data.get("variables", {}).items(): the key may be absent; a value
\* that is None or a list has no items()
RootVariables(cx) == IF cx.kind = "dict" THEN cx.variables ELSE <<>>
\* the names of the root variables bound to an input of the set, in the
\* order the set of them is iterated
BoundTo(cx, inputs) ==
    LET bound(vs) ==
            SelectSeq(cx.set_order,
                      LAMBDA name : \E i \in 1..Len(vs) :
                          /\ vs[i].name = name
                          /\ vs[i].str
                          /\ collect_input_refs(vs[i].value) # {}
                          /\ collect_input_refs(vs[i].value) \subseteq inputs)
    IN bound(RootVariables(cx))

check_input_datetime_usage(cx, var_name, value) ==
    IF cx.kind \in {"null", "list"} THEN Raise("AttributeError")
    ELSE LET States(dt_var) ==
                 Cat(<<Lit("states"), WS, Lit("("), WS, Esc(dt_var), WS, Lit(")")>>)
             pattern1(dt_var) ==
                 Cat(<<Lit("as_timestamp"), WS, Lit("("), WS, States(dt_var)>>)
             state_var_pattern(dt_var) ==
                 Cat(<<Grp(1, Plus(In(Word))), WS, Lit("="), WS, States(dt_var)>>)
             ts_pattern(state_var) ==
                 Cat(<<Lit("as_timestamp"), WS, Lit("("), WS, Esc(state_var), WS,
                       Lit(")")>>)
             intermediate(dt_var, state_var) ==
                 IF Found(ts_pattern(state_var), value)
                 THEN <<Diag("as_timestamp_of_state", <<var_name, state_var, dt_var>>,
                             <<>>)>>
                 ELSE <<>>
             of_var(dt_var) ==
                 (IF Found(pattern1(dt_var), value)
                  THEN <<Diag("as_timestamp_of_states", <<var_name, dt_var>>, <<>>)>>
                  ELSE <<>>)
                 \o FlatMap(LAMBDA state_var : intermediate(dt_var, state_var),
                            ReFindAll1(state_var_pattern(dt_var), value))
         IN Out(FlatMap(of_var, BoundTo(cx, cx.input_datetime_inputs)), <<>>, {})

check_entity_id_boolean_context(cx, var_name, value) ==
    IF cx.kind \in {"null", "list"} THEN Raise("AttributeError")
    ELSE LET pattern(entity_var) ==
                 Cat(<<WB, Lit("and"), WS1, Esc(entity_var), WS, In({"}", "%"})>>)
             explicit_check_pattern(entity_var) ==
                 Alt(<<Cat(<<Esc(entity_var), WS, Lit("|"), WS, Lit("string"), WS,
                             Lit("|"), WS, Lit("length")>>),
                       Cat(<<Esc(entity_var), WS, Lit("!="), WS, In({"'", "\""})>>),
                       Cat(<<Lit("len"), WS, Lit("("), WS, Esc(entity_var), WS,
                             Lit(")")>>),
                       Cat(<<Esc(entity_var), WS, Lit("|"), WS, Lit("length")>>)>>)
             of_var(entity_var) ==
                 IF /\ Found(pattern(entity_var), value)
                    /\ ~Found(explicit_check_pattern(entity_var), value)
                 THEN <<Diag("entity_boolean_context", <<var_name, entity_var>>, <<>>)>>
                 ELSE <<>>
         IN Out(<<>>, FlatMap(of_var, BoundTo(cx, cx.entity_inputs)), {})

\* _validate_action_variables: of the checks made on each string, the two
\* that read the root variables
validate_action_variables(cx, variables, path) ==
    LET h == cx.heap
        of_variable(i) ==
            IF h[h[variables].items[i]].t # "str" THEN Out(<<>>, <<>>, {})
            ELSE Then(check_input_datetime_usage(
                          cx, path \o <<".">> \o Chars(h[variables].keys[i]),
                          h[h[variables].items[i]].s),
                      check_entity_id_boolean_context(
                          cx, path \o <<".">> \o Chars(h[variables].keys[i]),
                          h[h[variables].items[i]].s))
    IN ThenAll([i \in 1..Len(h[variables].items) |-> of_variable(i)])

\* [a-z_] and [a-z0-9_]
LowerStart == Lower \cup {"_"}
LowerWord == Lower \cup Digit \cup {"_"}

validate_service_format(service, path) ==
    IF StartsWith(service, Chars("!input "))
    THEN Out(<<>>, <<>>, {Strip(Slice(service, 8, Len(service) + 1))})
    ELSE IF Contains(Chars("{{"), service) /\ Contains(Chars("}}"), service)
    THEN Out(<<>>, <<>>, {})
    ELSE IF ReMatch(Cat(<<BOS, In(LowerStart), Star(In(LowerWord)), Lit("."),
                          In(LowerStart), Star(In(LowerWord)), EOS>>), service).ok
    THEN Out(<<>>, <<>>, {})
    ELSE Out(<<>>, <<Diag("service_format", <<path, service>>, <<>>)>>, {})

validate_entity_id_format(entity_id, path) ==
    IF StartsWith(entity_id, Chars("!input "))
    THEN Out(<<>>, <<>>, {Strip(Slice(entity_id, 8, Len(entity_id) + 1))})
    ELSE IF Contains(Chars("{{"), entity_id) /\ Contains(Chars("}}"), entity_id)
    THEN Out(<<>>, <<>>, {})
    ELSE IF Strip(entity_id) = <<>>
    THEN Out(<<>>, <<>>, {})
    ELSE IF ReMatch(Cat(<<BOS, In(LowerStart), Star(In(LowerWord)), Lit("."),
                          Plus(In(LowerWord)), EOS>>), Strip(entity_id)).ok
    THEN Out(<<>>, <<>>, {})
    ELSE Out(<<>>, <<Diag("entity_id_format", <<path, Strip(entity_id)>>, <<>>)>>, {})

RECURSIVE check_trigger_entity_id(_, _, _, _)
check_trigger_entity_id(cx, value, path, depth) ==
    IF depth > RecursionLimit THEN Raise("RecursionError")
    ELSE LET h == cx.heap
             of_text(stripped) ==
                 IF stripped = <<>>
                 THEN Out(<<Diag("entity_id_empty", <<path>>, <<>>)>>, <<>>, {})
                 ELSE IF Contains(Chars("{{"), stripped) \/ Contains(Chars("}}"), stripped)
                 THEN Out(<<Diag("entity_id_template", <<path>>, <<>>)>>, <<>>, {})
                 ELSE IF StartsWith(stripped, Chars("!input "))
                 THEN validate_entity_id_format(stripped, path)
                 ELSE IF ~Contains(<<".">>, stripped)
                 THEN IF cx.kind = "dict"
                         /\ \E i \in 1..Len(cx.variables) : cx.variables[i].name = stripped
                      THEN Out(<<Diag("entity_id_variable", <<path, stripped>>, <<>>)>>,
                               <<>>, {})
                      ELSE Out(<<Diag("entity_id_invalid", <<path, stripped>>, <<>>)>>,
                               <<>>, {})
                 ELSE validate_entity_id_format(stripped, path)
         IN IF Node(h, value).t = "null" THEN Out(<<>>, <<>>, {})
            ELSE IF h[value].t = "list"
            THEN ThenAll([idx \in 1..Len(h[value].items) |->
                     check_trigger_entity_id(
                         cx, h[value].items[idx],
                         path \o <<"[">> \o Digits(idx - 1) \o <<"]">>, depth + 1)])
            ELSE IF h[value].t # "str" THEN Out(<<>>, <<>>, {})
            ELSE of_text(Strip(h[value].s))

check_entity_id_value(cx, value, path) ==
    LET h == cx.heap
        of_item(idx) ==
            IF h[h[value].items[idx]].t # "str"
            THEN Out(<<Diag("entity_id_entry_not_string",
                            <<path \o <<"[">> \o Digits(idx - 1) \o <<"]">>>>, <<>>)>>,
                     <<>>, {})
            ELSE Out(<<>>, <<>>, collect_input_refs(h[h[value].items[idx]].s))
        joined(match) ==
            IF match.ok /\ GroupText(Strip(h[value].s), match, 1) \in cx.join_variables
            THEN <<Diag("entity_id_join_variable",
                        <<path, GroupText(Strip(h[value].s), match, 1)>>, <<>>)>>
            ELSE <<>>
        of_text(stripped) ==
            IF stripped = <<>> THEN Out(<<>>, <<>>, {})
            ELSE Out((IF /\ Contains(<<",">>, stripped)
                         /\ ~Contains(Chars("{{"), stripped)
                         /\ ~StartsWith(stripped, <<"[">>)
                      THEN <<Diag("entity_id_comma_separated", <<path>>, <<>>)>>
                      ELSE <<>>)
                     \o (IF Contains(Chars("{{"), stripped) /\ Contains(Chars("}}"), stripped)
                         THEN (IF Found(Cat(<<WB, Lit("join"), WB>>), stripped)
                               THEN <<Diag("entity_id_join", <<path>>, <<>>)>>
                               ELSE <<>>)
                              \o joined(ReMatch(
                                    Cat(<<BOS, Lit("{{"), WS,
                                          Grp(1, Plus(In(Word \cup {"."})))>>), stripped))
                         ELSE <<>>),
                     <<>>, collect_input_refs(stripped))
    IN IF Node(h, value).t = "null" THEN Out(<<>>, <<>>, {})
       ELSE IF h[value].t = "list"
       THEN ThenAll([idx \in 1..Len(h[value].items) |-> of_item(idx)])
       ELSE IF h[value].t # "str" THEN Out(<<>>, <<>>, {})
       ELSE of_text(Strip(h[value].s))

VALID_CONDITION_TYPES == {Chars(n) : n \in {
    "and", "or", "not", "state", "numeric_state", "template", "time", "zone",
    "trigger", "sun", "device"}}

\* base + text + index + "]", as in f"{path}.conditions[{j}]"
At(base, text, j) == base \o Chars(text) \o Digits(j) \o <<"]">>

RECURSIVE validate_condition_item(_, _, _, _)
validate_condition_item(cx, condition, path, depth) ==
    IF depth > RecursionLimit THEN Raise("RecursionError")
    ELSE IF Node(cx.heap, condition).t # "dict"
    THEN Out(<<Diag("condition_not_dict", <<path>>, <<>>)>>, <<>>, {})
    ELSE LET h == cx.heap
             get(key) == Node(h, Get(h, condition, key))
             each(nested) ==
                 ThenAll([j \in 1..Len(nested.items) |->
                     validate_condition_item(cx, nested.items[j],
                                             At(path, ".conditions[", j - 1), depth + 1)])
             shorthand ==
                 IF "conditions" \in Range(h[condition].keys)
                    /\ get("conditions").t = "list"
                 THEN each(get("conditions")) ELSE Out(<<>>, <<>>, {})
             unknown(condition_type) ==
                 Out(<<>>,
                     IF condition_type \in VALID_CONDITION_TYPES THEN <<>>
                     ELSE <<Diag("unknown_condition_type", <<path, condition_type>>,
                                 <<>>)>>,
                     {})
             nested_of(condition_type, nested) ==
                 IF condition_type \notin {Chars("and"), Chars("or"), Chars("not")}
                 THEN Out(<<>>, <<>>, {})
                 ELSE IF nested.t = "null"
                 THEN Out(<<Diag("conditions_required", <<path, condition_type>>,
                                 <<>>)>>, <<>>, {})
                 ELSE IF nested.t # "list"
                 THEN Out(<<Diag("conditions_not_list", <<path>>, <<>>)>>, <<>>, {})
                 ELSE each(nested)
             state_of(condition_type, entity_id) ==
                 IF condition_type = Chars("state") /\ entity_id.t = "str"
                 THEN Out(<<>>, <<>>, collect_input_refs(entity_id.s))
                 ELSE Out(<<>>, <<>>, {})
             template_of(condition_type, value_template) ==
                 IF condition_type = Chars("template") /\ value_template.t = "str"
                 THEN check_entity_id_boolean_context(
                          cx, path \o Chars(".value_template"), value_template.s)
                 ELSE Out(<<>>, <<>>, {})
             typed(condition_type) ==
                 Then(unknown(condition_type),
                 Then(nested_of(condition_type, get("conditions")),
                 Then(state_of(condition_type, get("entity_id")),
                 Then(template_of(condition_type, get("value_template")),
                      collect_input_refs_from_dict(h, condition, depth + 1)))))
         IN IF get("condition").t = "null" THEN shorthand
            ELSE IF get("condition").t # "str"
            THEN Out(<<Diag("condition_type_not_string", <<path>>, <<>>)>>, <<>>, {})
            ELSE typed(get("condition").s)

\* _validate_action_item: the inline variables, the service call, the
\* if/then/else, repeat and choose structures and the !input references;
\* the checks of delay, wait_template and wait_for_trigger, which look at
\* one value each and append diagnostics of their own kinds, are left out
RECURSIVE validate_action_item(_, _, _, _)
validate_action_item(cx, action, path, depth) ==
    IF depth > RecursionLimit THEN Raise("RecursionError")
    ELSE IF Node(cx.heap, action).t # "dict"
    THEN Out(<<Diag("action_not_dict", <<path>>, <<>>)>>, <<>>, {})
    ELSE LET h == cx.heap
             get(key) == Node(h, Get(h, action, key))
             conditions(list, base, text) ==
                 IF list.t # "list" THEN Out(<<>>, <<>>, {})
                 ELSE ThenAll([j \in 1..Len(list.items) |->
                          validate_condition_item(cx, list.items[j],
                                                  At(base, text, j - 1), depth + 1)])
             sequence(list, base, name) ==
                 IF list.t # "list" THEN Out(<<>>, <<>>, {})
                 ELSE Then(Out(<<>>,
                               IF Len(list.items) = 0
                               THEN <<Diag("empty_sequence", <<base \o Chars(name)>>,
                                           <<>>)>>
                               ELSE <<>>,
                               {}),
                           ThenAll([j \in 1..Len(list.items) |->
                               validate_action_item(
                                   cx, list.items[j],
                                   At(base \o Chars(name), "[", j - 1), depth + 1)]))
             missing(value, kind, where) ==
                 Out(IF value.t = "null" THEN <<Diag(kind, <<where>>, <<>>)>> ELSE <<>>,
                     <<>>, {})
             variables_part ==
                 IF get("variables").t = "dict"
                 THEN validate_action_variables(cx, Get(h, action, "variables"),
                                                path \o Chars(".variables"))
                 ELSE Out(<<>>, <<>>, {})
             data_part(data) ==
                 Out(IF data.t = "null" /\ "data" \in Range(h[action].keys)
                     THEN <<Diag("data_none", <<path>>, <<>>)>>
                     ELSE IF data.t \notin {"null", "dict"}
                     THEN <<Diag("data_not_dict", <<path>>, <<>>)>>
                     ELSE <<>>,
                     <<>>, {})
             target_part(target) ==
                 IF target.t = "dict"
                 THEN check_entity_id_value(cx, Get(h, Get(h, action, "target"), "entity_id"),
                                            path \o Chars(".target.entity_id"))
                 ELSE Out(<<>>, <<>>, {})
             service_part ==
                 IF get("service").t # "str" THEN Out(<<>>, <<>>, {})
                 ELSE Then(validate_service_format(get("service").s,
                                                   path \o Chars(".service")),
                      Then(data_part(get("data")),
                      Then(target_part(get("target")),
                           check_entity_id_value(cx, Get(h, action, "entity_id"),
                                                 path \o Chars(".entity_id")))))
             if_part ==
                 IF "if" \notin Range(h[action].keys) THEN Out(<<>>, <<>>, {})
                 ELSE Then(conditions(get("if"), path, ".if["),
                      Then(missing(get("then"), "if_requires_then", path),
                      Then(sequence(get("then"), path, ".then"),
                           sequence(get("else"), path, ".else"))))
             repeat_part(repeat) ==
                 IF repeat.t # "dict" THEN Out(<<>>, <<>>, {})
                 ELSE Then(missing(Node(h, Get(h, Get(h, action, "repeat"), "sequence")),
                                   "repeat_sequence_missing", path),
                      Then(sequence(Node(h, Get(h, Get(h, action, "repeat"), "sequence")),
                                    path, ".repeat.sequence"),
                           Out(<<>>,
                               IF (LET for_each ==
                                        Node(h, Get(h, Get(h, action, "repeat"), "for_each"))
                                   IN for_each.t = "str"
                                      /\ Contains(Chars("join"), for_each.s))
                               THEN <<Diag("for_each_join", <<path>>, <<>>)>>
                               ELSE <<>>,
                               {})))
             choice_part(choice, j) ==
                 IF Node(h, choice).t # "dict" THEN Out(<<>>, <<>>, {})
                 ELSE Then(conditions(Node(h, Get(h, choice, "conditions")),
                                      At(path, ".choose[", j - 1), ".conditions["),
                      Then(missing(Node(h, Get(h, choice, "sequence")),
                                   "choose_sequence_missing", At(path, ".choose[", j - 1)),
                           sequence(Node(h, Get(h, choice, "sequence")),
                                    At(path, ".choose[", j - 1), ".sequence")))
             choose_part(choose) ==
                 IF choose.t # "list" THEN Out(<<>>, <<>>, {})
                 ELSE Then(ThenAll([j \in 1..Len(choose.items) |->
                               choice_part(choose.items[j], j)]),
                           sequence(get("default"), path, ".default"))
         IN Then(variables_part,
            Then(service_part,
            Then(if_part,
            Then(repeat_part(get("repeat")),
            Then(choose_part(get("choose")),
                 collect_input_refs_from_dict(h, action, depth + 1))))))

\* _validate_conditions
validate_conditions(cx, conditions) ==
    IF Node(cx.heap, conditions).t = "null" THEN Out(<<>>, <<>>, {})
    ELSE IF cx.heap[conditions].t # "list"
    THEN Out(<<Diag("condition_not_list", <<>>, <<>>)>>, <<>>, {})
    ELSE ThenAll([i \in 1..Len(cx.heap[conditions].items) |->
             validate_condition_item(cx, cx.heap[conditions].items[i],
                                     At(<<>>, "condition[", i - 1), 1)])

\* _validate_actions
validate_actions(cx, actions) ==
    IF Node(cx.heap, actions).t = "null" THEN Out(<<>>, <<>>, {})
    ELSE IF cx.heap[actions].t # "list"
    THEN Out(<<Diag("action_not_list", <<>>, <<>>)>>, <<>>, {})
    ELSE ThenAll([i \in 1..Len(cx.heap[actions].items) |->
             validate_action_item(cx, cx.heap[actions].items[i],
                                  At(<<>>, "action[", i - 1), 1)])

\* _validate_triggers: the shape of each trigger, its entity_id and its
\* !input references; the checks of template triggers and of `for:`
\* durations, which append diagnostics of their own kinds, are left out
validate_triggers(cx, triggers) ==
    IF Node(cx.heap, triggers).t = "null" THEN Out(<<>>, <<>>, {})
    ELSE IF cx.heap[triggers].t # "list"
    THEN Out(<<Diag("trigger_not_list", <<>>, <<>>)>>, <<>>, {})
    ELSE LET h == cx.heap
             of_trigger(trigger, path) ==
                 IF h[trigger].t # "dict"
                 THEN Out(<<Diag("trigger_not_dict", <<path>>, <<>>)>>, <<>>, {})
                 ELSE Then(Out(IF "platform" \notin Range(h[trigger].keys)
                                  /\ "trigger" \notin Range(h[trigger].keys)
                               THEN <<Diag("trigger_platform_missing", <<path>>, <<>>)>>
                               ELSE <<>>,
                               <<>>, {}),
                      Then(check_trigger_entity_id(cx, Get(h, trigger, "entity_id"),
                                                   path \o Chars(".entity_id"), 1),
                           collect_input_refs_from_dict(h, trigger, 1)))
         IN ThenAll([i \in 1..Len(h[triggers].items) |->
                of_trigger(h[triggers].items[i], At(<<>>, "trigger[", i - 1))])

\* ord(c), for the printable characters of ASCII but the grave accent
CodePoints ==
    Chars(" !\"#$%&'()*+,-./0123456789:;<=>?@ABCDEFGHIJKLMNOPQRSTUVWXYZ[\\]^_")
    \o <<"">> \o Chars("abcdefghijklmnopqrstuvwxyz{|}~")
ord(c) == 31 + (CHOOSE i \in 1..Len(CodePoints) : CodePoints[i] = c)
\* a < b on str
RECURSIVE Less(_, _)
Less(a, b) ==
    IF b = <<>> THEN FALSE
    ELSE IF a = <<>> THEN TRUE
    ELSE IF a[1] = b[1] THEN Less(Tail(a), Tail(b))
    ELSE ord(a[1]) < ord(b[1])
\* sorted(S) of a set of str
RECURSIVE sorted(_)
sorted(S) ==
    IF S = {} THEN <<>>
    ELSE LET from(least) == <<least>> \o sorted(S \ {least})
         IN from(CHOOSE x \in S : \A y \in S \ {x} : Less(x, y))

(***************************************************************************)
(* The validator.  file is what is at the path: how loading it ends and,   *)
(* when it loads, the document.  data is self.data, the document once it   *)
(* is loaded: the variables section as the ordered mapping the loader      *)
(* produced (name, value, and whether the value is a string), the inputs,  *)
(* and the trigger, condition and action sections as values on a heap.     *)
(*                                                                         *)
(* Of validate() the model follows _load_yaml, _validate_inputs,           *)
(* _validate_variables, _validate_triggers, _validate_conditions,          *)
(* _validate_actions, _validate_templates, _validate_input_references and  *)
(* _report_results.  The loop of _validate_variables is followed through   *)
(* the checks of ordering, math function safety, undefined references,     *)
(* unsafe math operations and filter types.  Its other checks, and the     *)
(* passes _validate_structure, _validate_blueprint_section,                *)
(* _validate_mode, _validate_hysteresis_boundaries, _validate_version_sync,*)
(* _check_readme_exists and _check_changelog_exists, append diagnostics    *)
(* only and write nothing that the modelled checks read, so every          *)
(* property here is stated over the diagnostics the modelled checks        *)
(* produce.                                                                *)
(***************************************************************************)
VARIABLES
    file,                  \* the file at self.file_path
    data,                  \* self.data
    errors,                \* self.errors
    warnings,              \* self.warnings
    pc,                    \* the position in validate()
    idx,                   \* the index of the variable the loop is at
    defined_vars,          \* defined_vars of _validate_variables
    defined_variables,     \* self.defined_variables
    nonzero_default_vars,  \* self.nonzero_default_vars: has = the attribute is set
    join_variables,        \* self.join_variables
    used_inputs,           \* self.used_inputs
    defined_inputs,        \* self.defined_inputs
    entity_inputs,         \* self.entity_inputs
    input_datetime_inputs, \* self.input_datetime_inputs
    result,                \* how validate() ended: its return value or its exception
    output,                \* the lines printed
    runs,                  \* the diagnostics of the runs that have ended
    pending                \* the files validate_all has still to validate

vars == <<file, data, errors, warnings, pc, idx, defined_vars, defined_variables,
          nonzero_default_vars, join_variables, used_inputs, defined_inputs,
          entity_inputs, input_datetime_inputs, result, output, runs, pending>>

\* one entry of the variables mapping whose value is a string
Entry(name, value) == [name |-> name, value |-> value, str |-> TRUE]
Var(name, value) == Entry(Chars(name), Chars(value))
\* a variable whose value is no string (a number, a boolean, a list)
NonStringVar(name) == [name |-> Chars(name), value |-> <<>>, str |-> FALSE]

Names(variables) == {variables[i].name : i \in 1..Len(variables)}
var_order(variables) == [i \in 1..Len(variables) |-> variables[i].name]

\* the file text of a variables section: one "name: value" line per entry
FileText(variables) ==
    Concat([i \in 1..Len(variables) |->
               variables[i].name \o <<":", " ">> \o variables[i].value \o <<"\n">>])

\* a document.  kind tells what the root key `variables` holds: "none" when
\* the key is absent, "null", "list", or "dict" with the entries in
\* variables.  input holds the inputs of blueprint.input, each with its
\* name and the type of its selector.  trigger, condition and action are
\* the references of the root keys of that name, on heap.  content is the
\* text of the file.
Tree(kind, variables, input, trigger, condition, action, heap) ==
    [kind |-> kind, variables |-> variables, content |-> FileText(variables),
     input |-> input, trigger |-> trigger, condition |-> condition,
     action |-> action, heap |-> heap]
\* a document with a variables section, with the text of the file after it
DocWith(variables, rest) ==
    [Tree("dict", variables, <<>>, 0, 0, 0, <<>>)
        EXCEPT !.content = FileText(variables) \o rest]
Doc(variables) == DocWith(variables, <<>>)
\* a document without a variables section, with the given file text
TextDoc(content) ==
    [Tree("none", <<>>, <<>>, 0, 0, 0, <<>>) EXCEPT !.content = content]

\* how validate() ended
NoResult == [kind |-> "none", value |-> FALSE, exc |-> ""]
\* a validate() that returns True whatever it found
ReturnedTrue(value) == [kind |-> "return", value |-> TRUE, exc |-> ""]
Returned(value) == [kind |-> "return", value |-> value, exc |-> ""]
Raised(exc) == [kind |-> "raise", value |-> FALSE, exc |-> exc]

\* a printed line: what it is and, for an error or a warning, the diagnostic
Line(kind, diag) == [kind |-> kind, diag |-> diag]
Plain(kind) == Line(kind, Diag("", <<>>, <<>>))

\* __init__, for a file that loads as document d / for any file f
FreshOn(f) ==
    /\ file = f
    /\ data = Tree("none", <<>>, <<>>, 0, 0, 0, <<>>)
    /\ errors = <<>>
    /\ warnings = <<>>
    /\ pc = "load"
    /\ idx = 0
    /\ defined_vars = {}
    /\ defined_variables = {}
    /\ nonzero_default_vars = [has |-> FALSE, names |-> {}]
    /\ join_variables = {}
    /\ used_inputs = {}
    /\ defined_inputs = {}
    /\ entity_inputs = {}
    /\ input_datetime_inputs = {}
    /\ result = NoResult
    /\ output = <<>>
Fresh(d) == FreshOn([load |-> "ok", doc |-> d])

\* validate() up to the passes: the header line and _load_yaml.  load tells
\* what loading the file does: "ok" gives a mapping, "not_dict" another
\* value, "yaml_error" and "os_error" raise the exception of that name.
LoadYaml ==
    /\ pc = "load"
    /\ output' = Append(output, Plain("validating"))
    /\ IF file.load = "ok"
       THEN /\ data' = file.doc
            /\ pc' = "inputs"
            /\ UNCHANGED <<errors, result>>
       ELSE /\ errors' = Append(errors, Diag(file.load, <<>>, <<>>))
            /\ result' = Returned(FALSE)
            /\ pc' = "done"
            /\ UNCHANGED data
    /\ UNCHANGED <<file, warnings, idx, defined_vars, defined_variables,
                   nonzero_default_vars, join_variables, used_inputs, defined_inputs,
                   entity_inputs, input_datetime_inputs, runs, pending>>

\* _validate_inputs over a blueprint.input without groups: every input is
\* recorded as defined; one without selector gets a warning; one with an
\* entity selector is recorded, and so is the domain input_datetime of it
ValidateInputs ==
    /\ pc = "inputs"
    /\ defined_inputs' = defined_inputs \cup {data.input[i].name : i \in 1..Len(data.input)}
    /\ warnings' = warnings \o
            FlatMap(LAMBDA in : IF in.selector = "none"
                                THEN <<Diag("no_selector", <<in.name>>, <<>>)>>
                                ELSE <<>>,
                    data.input)
    /\ entity_inputs' = entity_inputs \cup
            {data.input[i].name : i \in {i \in 1..Len(data.input) :
                data.input[i].selector \in {"entity", "input_datetime"}}}
    /\ input_datetime_inputs' = input_datetime_inputs \cup
            {data.input[i].name : i \in {i \in 1..Len(data.input) :
                data.input[i].selector = "input_datetime"}}
    /\ pc' = "variables"
    /\ UNCHANGED <<file, data, errors, idx, defined_vars, defined_variables,
                   nonzero_default_vars, join_variables, used_inputs, result, output,
                   runs, pending>>

\* \|\s*join\b   and   \bjoin\s*\(
JoinFilter == Cat(<<Lit("|"), WS, Lit("join"), WB>>)
JoinCall == Cat(<<WB, Lit("join"), WS, Lit("(")>>)

\* _validate_variables up to its loop: the section's shape, the dependency
\* chains, the pre-pass for non-zero defaults, the names
ValidateVariables ==
    /\ pc = "variables"
    /\ IF data.kind \in {"none", "null"}
       THEN /\ warnings' = Append(warnings, Diag("no_variables", <<>>, <<>>))
            /\ pc' = "triggers"
            /\ UNCHANGED <<errors, idx, defined_variables, nonzero_default_vars>>
       ELSE IF data.kind # "dict"
       THEN /\ errors' = Append(errors, Diag("variables_not_dict", <<>>, <<>>))
            /\ pc' = "triggers"
            /\ UNCHANGED <<warnings, idx, defined_variables, nonzero_default_vars>>
       ELSE /\ \E set_order \in Orders(Names(data.variables)) :
                    warnings' = warnings \o
                        check_variable_dependency_chains(data.variables, set_order)
            /\ nonzero_default_vars' =
                    [has |-> TRUE,
                     names |-> {data.variables[i].name : i \in
                                   {i \in 1..Len(data.variables) :
                                       /\ data.variables[i].str
                                       /\ HasNonzeroDefault(data.variables[i].value)}}]
            /\ defined_variables' = Names(data.variables)
            /\ idx' = 1
            /\ pc' = IF Len(data.variables) = 0 THEN "version" ELSE "collect"
            /\ UNCHANGED errors
    /\ UNCHANGED <<file, data, defined_vars, join_variables, used_inputs, defined_inputs,
                   entity_inputs, input_datetime_inputs, result, output, runs, pending>>

\* the variable the loop is at
Cur == data.variables[idx]

\* the head of the loop body: a value that is no string skips every check;
\* a string is recorded when it builds a joined list, and its !input use
CollectVariable ==
    /\ pc = "collect"
    /\ IF ~Cur.str
       THEN /\ pc' = "define"
            /\ UNCHANGED <<join_variables, used_inputs>>
       ELSE /\ join_variables' =
                    IF Found(JoinFilter, Cur.value) \/ Found(JoinCall, Cur.value)
                    THEN join_variables \cup {Cur.name} ELSE join_variables
            /\ used_inputs' = used_inputs \cup collect_input_refs(Cur.value)
            /\ pc' = "ordering"
    /\ UNCHANGED <<file, data, errors, warnings, idx, defined_vars, defined_variables,
                   nonzero_default_vars, defined_inputs, entity_inputs,
                   input_datetime_inputs, result, output, runs, pending>>

\* an ordering check that puts what it finds before the errors recorded so far
CheckVariableOrderingFirst ==
    /\ pc = "ordering"
    /\ errors' = check_variable_ordering(Cur.name, Cur.value, defined_vars,
                                         var_order(data.variables)) \o errors
    /\ pc' = "math_safety"
    /\ UNCHANGED <<file, data, warnings, idx, defined_vars, defined_variables,
                   nonzero_default_vars, join_variables, used_inputs, defined_inputs,
                   entity_inputs, input_datetime_inputs, result, output, runs, pending>>

CheckVariableOrdering ==
    /\ pc = "ordering"
    /\ errors' = errors \o check_variable_ordering(Cur.name, Cur.value, defined_vars,
                                                   var_order(data.variables))
    /\ pc' = "math_safety"
    /\ UNCHANGED <<file, data, warnings, idx, defined_vars, defined_variables,
                   nonzero_default_vars, join_variables, used_inputs, defined_inputs,
                   entity_inputs, input_datetime_inputs, result, output, runs, pending>>

\* a math function check that records what it finds as errors
CheckMathFunctionSafetyAsErrors ==
    /\ pc = "math_safety"
    /\ errors' = errors \o
            check_math_function_safety(Cur.name, Cur.value, nonzero_default_vars)
    /\ pc' = "undefined"
    /\ UNCHANGED <<file, data, warnings, idx, defined_vars, defined_variables,
                   nonzero_default_vars, join_variables, used_inputs, defined_inputs,
                   entity_inputs, input_datetime_inputs, result, output, runs, pending>>

CheckMathFunctionSafety ==
    /\ pc = "math_safety"
    /\ warnings' = warnings \o
            check_math_function_safety(Cur.name, Cur.value, nonzero_default_vars)
    /\ pc' = "undefined"
    /\ UNCHANGED <<file, data, errors, idx, defined_vars, defined_variables,
                   nonzero_default_vars, join_variables, used_inputs, defined_inputs,
                   entity_inputs, input_datetime_inputs, result, output, runs, pending>>

CheckUndefinedVariableReferences ==
    /\ pc = "undefined"
    /\ \E appended \in check_undefined_variable_references(
                            Cur.name, Cur.value, defined_vars, defined_variables) :
            errors' = errors \o appended
    /\ pc' = "unsafe_math"
    /\ UNCHANGED <<file, data, warnings, idx, defined_vars, defined_variables,
                   nonzero_default_vars, join_variables, used_inputs, defined_inputs,
                   entity_inputs, input_datetime_inputs, result, output, runs, pending>>

CheckUnsafeMathOperations ==
    /\ pc = "unsafe_math"
    /\ warnings' = warnings \o
            check_unsafe_math_operations(Cur.name, Cur.value, nonzero_default_vars)
    /\ pc' = "type_mismatch"
    /\ UNCHANGED <<file, data, errors, idx, defined_vars, defined_variables,
                   nonzero_default_vars, join_variables, used_inputs, defined_inputs,
                   entity_inputs, input_datetime_inputs, result, output, runs, pending>>

CheckTypeMismatchInFilters ==
    /\ pc = "type_mismatch"
    /\ warnings' = warnings \o check_type_mismatch_in_filters(Cur.name, Cur.value)
    /\ pc' = "define"
    /\ UNCHANGED <<file, data, errors, idx, defined_vars, defined_variables,
                   nonzero_default_vars, join_variables, used_inputs, defined_inputs,
                   entity_inputs, input_datetime_inputs, result, output, runs, pending>>

\* a loop that records a variable as defined only when its value is a string
DefineVariableIfString ==
    /\ pc = "define"
    /\ defined_vars' = IF Cur.str THEN defined_vars \cup {Cur.name} ELSE defined_vars
    /\ idx' = idx + 1
    /\ pc' = IF idx = Len(data.variables) THEN "version" ELSE "collect"
    /\ UNCHANGED <<file, data, errors, warnings, defined_variables,
                   nonzero_default_vars, join_variables, used_inputs, defined_inputs,
                   entity_inputs, input_datetime_inputs, result, output, runs, pending>>

\* defined_vars.add(name), and on to the next variable
DefineVariable ==
    /\ pc = "define"
    /\ defined_vars' = defined_vars \cup {Cur.name}
    /\ idx' = idx + 1
    /\ pc' = IF idx = Len(data.variables) THEN "version" ELSE "collect"
    /\ UNCHANGED <<file, data, errors, warnings, defined_variables,
                   nonzero_default_vars, join_variables, used_inputs, defined_inputs,
                   entity_inputs, input_datetime_inputs, result, output, runs, pending>>

\* the end of _validate_variables
CheckBlueprintVersion ==
    /\ pc = "version"
    /\ warnings' = IF Chars("blueprint_version") \in Names(data.variables)
                   THEN warnings
                   ELSE Append(warnings, Diag("no_blueprint_version", <<>>, <<>>))
    /\ pc' = "triggers"
    /\ UNCHANGED <<file, data, errors, idx, defined_vars, defined_variables,
                   nonzero_default_vars, join_variables, used_inputs, defined_inputs,
                   entity_inputs, input_datetime_inputs, result, output, runs, pending>>

\* what the checks of triggers, conditions and actions read
Context(set_order) ==
    [heap |-> data.heap, kind |-> data.kind, variables |-> data.variables,
     entity_inputs |-> entity_inputs, input_datetime_inputs |-> input_datetime_inputs,
     join_variables |-> join_variables, set_order |-> set_order]

\* a pass that takes the trigger section out of the document when it ends
EndsConsuming(out, next) ==
    /\ errors' = errors \o out.errors
    /\ warnings' = warnings \o out.warnings
    /\ used_inputs' = used_inputs \cup out.used
    /\ pc' = IF out.raised = "" THEN next ELSE "raised"
    /\ result' = IF out.raised = "" THEN result ELSE Raised(out.raised)
    /\ data' = [data EXCEPT !.trigger = 0]
    /\ UNCHANGED <<file, idx, defined_vars, defined_variables,
                   nonzero_default_vars, join_variables, defined_inputs, entity_inputs,
                   input_datetime_inputs, output, runs, pending>>

\* a pass ends: what it appended and recorded is kept; it returns and the
\* next pass follows, or its exception leaves validate()
Ends(out, next) ==
    /\ errors' = errors \o out.errors
    /\ warnings' = warnings \o out.warnings
    /\ used_inputs' = used_inputs \cup out.used
    /\ pc' = IF out.raised = "" THEN next ELSE "raised"
    /\ result' = IF out.raised = "" THEN result ELSE Raised(out.raised)
    /\ UNCHANGED <<file, data, idx, defined_vars, defined_variables,
                   nonzero_default_vars, join_variables, defined_inputs, entity_inputs,
                   input_datetime_inputs, output, runs, pending>>

ValidateTriggers ==
    /\ pc = "triggers"
    /\ \E set_order \in Orders(Names(data.variables)) :
            Ends(validate_triggers(Context(set_order), data.trigger), "conditions")

ValidateConditions ==
    /\ pc = "conditions"
    /\ \E set_order \in Orders(Names(data.variables)) :
            Ends(validate_conditions(Context(set_order), data.condition), "actions")

ValidateActions ==
    /\ pc = "actions"
    /\ \E set_order \in Orders(Names(data.variables)) :
            Ends(validate_actions(Context(set_order), data.action), "templates")

ValidateTemplates ==
    /\ pc = "templates"
    /\ errors' = errors \o validate_templates_errors(file.doc.content)
    /\ warnings' = warnings \o validate_templates_warnings(file.doc.content)
    /\ pc' = "input_references"
    /\ UNCHANGED <<file, data, idx, defined_vars, defined_variables,
                   nonzero_default_vars, join_variables, used_inputs, defined_inputs,
                   entity_inputs, input_datetime_inputs, result, output, runs, pending>>

\* _validate_input_references
ValidateInputReferences ==
    /\ pc = "input_references"
    /\ errors' = errors \o
            MapSeq(LAMBDA input_name : Diag("undefined_input", <<input_name>>, <<>>),
                   sorted(used_inputs \ defined_inputs))
    /\ pc' = "report"
    /\ UNCHANGED <<file, data, warnings, idx, defined_vars, defined_variables,
                   nonzero_default_vars, join_variables, used_inputs, defined_inputs,
                   entity_inputs, input_datetime_inputs, result, output, runs, pending>>

\* _report_results, and the return of validate()
ReportResults ==
    /\ pc = "report"
    /\ output' = output
            \o <<Plain("blank")>>
            \o (IF errors = <<>> THEN <<>>
                ELSE <<Plain("errors_header")>>
                     \o MapSeq(LAMBDA error : Line("error", error), errors)
                     \o <<Plain("blank")>>)
            \o (IF warnings = <<>> THEN <<>>
                ELSE <<Plain("warnings_header")>>
                     \o MapSeq(LAMBDA warning : Line("warning", warning), warnings)
                     \o <<Plain("blank")>>)
            \o <<Plain(IF errors = <<>> /\ warnings = <<>> THEN "valid"
                       ELSE IF errors = <<>> THEN "valid_with_warnings"
                       ELSE "failed")>>
    /\ result' = Returned(errors = <<>>)
    /\ pc' = "done"
    /\ UNCHANGED <<file, data, errors, warnings, idx, defined_vars, defined_variables,
                   nonzero_default_vars, join_variables, used_inputs, defined_inputs,
                   entity_inputs, input_datetime_inputs, runs, pending>>

Next ==
    \/ LoadYaml
    \/ ValidateInputs
    \/ ValidateVariables
    \/ CollectVariable
    \/ CheckVariableOrdering
    \/ CheckMathFunctionSafety
    \/ CheckUndefinedVariableReferences
    \/ CheckUnsafeMathOperations
    \/ CheckTypeMismatchInFilters
    \/ DefineVariable
    \/ CheckBlueprintVersion
    \/ ValidateTriggers
    \/ ValidateConditions
    \/ ValidateActions
    \/ ValidateTemplates
    \/ ValidateInputReferences
    \/ ReportResults

(***************************************************************************)
(* The documents the specifications start from                             *)
(***************************************************************************)
\* the most blanks put where a template allows any number of them
MaxPad == 2
Pad(n) == [i \in 1..n |-> " "]

\* the variables sections made of one field, alone or with one declaration
\* before or after it
Sections(fields, declarations) ==
    {<<f>> : f \in fields}
    \cup {<<f, d>> : f \in fields, d \in declarations}
    \cup {<<d, f>> : f \in fields, d \in declarations}

StartsWithDoc(docs) ==
    /\ \E d \in docs : Fresh(d)
    /\ runs = <<>>
    /\ pending = <<>>

\* how many diagnostics of a list satisfy a condition
CountOf(diags, Test(_)) == Cardinality({i \in 1..Len(diags) : Test(diags[i])})
\* the fields of the document that are strings
StringFields == {i \in 1..Len(data.variables) : data.variables[i].str}

(***************************************************************************)
(* Numeric safety: divisions and square roots                              *)
(***************************************************************************)
Dividends == {"x", "2"}
Divisors == {"y", "n", "pi", "e", "tau"}
\* {{ x / y }} with p blanks on each side of the operator
Division(x, y, p) ==
    Chars("{{ ") \o Chars(x) \o Pad(p) \o <<"/">> \o Pad(p) \o Chars(y) \o Chars(" }}")
PlainDivisions == {Division(x, y, p) : x \in Dividends, y \in Divisors, p \in 0..MaxPad}
\* what else the field may contain: a guard on y, a default for y
DivisionTails == {"{{ 1 if y > 0 }}", "{{ y | int(2) }}"}
DivisionFields ==
    PlainDivisions \cup {d \o Chars(t) : d \in PlainDivisions, t \in DivisionTails}

SqrtArguments == {"x", "max(0, x)", "abs(x)", "4", "x + 1"}
\* {{ sqrt(arg) }} with p blanks inside the parentheses
Sqrt(arg, p) ==
    Chars("{{ sqrt(") \o Pad(p) \o Chars(arg) \o Pad(p) \o Chars(") }}")
SqrtFields == {Sqrt(a, p) : a \in SqrtArguments, p \in 0..MaxPad}

\* declarations of the divisor y: with a non-zero default, with a zero default
NonzeroDeclarations == {Var("y", "{{ states('s.y') | float(1) }}")}
ZeroDeclarations == {Var("y", "{{ states('s.y') | float(0) }}")}

MathFields == {Entry(Chars("r"), f) : f \in DivisionFields \cup SqrtFields}
MathDocs ==
    {Doc(v) : v \in Sections(MathFields, NonzeroDeclarations \cup ZeroDeclarations)}

MathInit == StartsWithDoc(MathDocs)
SpecMath == MathInit /\ [][Next]_vars

\* the warnings of a kind that name the variable
About(kind, name) == CountOf(warnings, LAMBDA d : d.kind = kind /\ d.args[1] = name)

\* C2: the template {{ sqrt(max(0, x)) }}, whose argument is wrapped in
\* max(0, x), gets no sqrt warning.
SqrtOfMaxZeroIsNotWarned ==
    pc = "done" =>
        \A i \in StringFields :
            data.variables[i].value = Sqrt("max(0, x)", 0)
                => About("sqrt", data.variables[i].name) = 0

\* y is declared in the document with a non-zero literal default
HasNonzeroDeclaration(y) ==
    \E j \in 1..Len(data.variables) :
        data.variables[j] \in NonzeroDeclarations /\ data.variables[j].name = Chars(y)

\* C7: a field {{ x / y }} that holds nothing else, where y is not one of
\* the constants pi, e, tau and is not declared with a non-zero literal
\* default, gets exactly one warning about the unguarded division by y.
UnguardedDivisionIsWarnedOnce ==
    pc = "done" =>
        \A i \in StringFields : \A x \in Dividends, y \in Divisors, p \in 0..MaxPad :
            (/\ data.variables[i].value = Division(x, y, p)
             /\ y \notin {"pi", "e", "tau"}
             /\ ~HasNonzeroDeclaration(y))
            => CountOf(warnings,
                       LAMBDA d : /\ d.kind = "division"
                                  /\ d.args = <<data.variables[i].name, Chars(y)>>) = 1

UnguardedDivisionWarned ==
    /\ pc = "done"
    /\ Len(data.variables) = 1
    /\ data.variables[1].value = Division("x", "y", 1)
    /\ DivisionWarning(Chars("r"), Chars("y")) \in Range(warnings)

\* C8: a division by pi, e or tau gets no division warning, whatever else
\* the field holds: no division warning names one of them, and a field whose
\* only division is by one of them gets no division warning at all.
DivisionByConstantIsNotWarned ==
    /\ \A k \in 1..Len(warnings) :
            warnings[k].kind = "division"
                => warnings[k].args[2] \notin {Chars("pi"), Chars("e"), Chars("tau")}
    /\ pc = "done" =>
            \A i \in StringFields :
                \A x \in Dividends, y \in {"pi", "e", "tau"}, p \in 0..MaxPad :
                    \A t \in DivisionTails \cup {""} :
                        data.variables[i].value = Division(x, y, p) \o Chars(t)
                            => About("division", data.variables[i].name) = 0

DividedByTau ==
    /\ pc = "done"
    /\ \E i \in StringFields :
            /\ \E t \in DivisionTails :
                    data.variables[i].value = Division("x", "tau", 1) \o Chars(t)
            /\ About("division", data.variables[i].name) = 0

(***************************************************************************)
(* Filters on state lookups                                                *)
(***************************************************************************)
\* the filters put between the lookup and round: none, or a conversion
Conversions == {"", "float(0) | ", "int(0) | "}
\* states('entity') | [conversion |] round, with p blanks around the pipes
Lookup(entity, conversion, p) ==
    Chars("states('") \o Chars(entity) \o Chars("')") \o Pad(p) \o <<"|">> \o Pad(p)
    \o Chars(conversion) \o Chars("round")
OneLookup(c, p) == Chars("{{ ") \o Lookup("sensor.x", c, p) \o Chars(" }}")
TwoLookups(c1, c2, p) ==
    Chars("{{ ") \o Lookup("sensor.x", c1, p) \o Chars(" }} {{ ")
    \o Lookup("sensor.y", c2, p) \o Chars(" }}")
\* the fields with exactly one lookup that reaches round unconverted
OneUnconverted ==
    {OneLookup("", p) : p \in 0..MaxPad}
    \cup {TwoLookups("", c, p) : c \in Conversions \ {""}, p \in 0..MaxPad}
    \cup {TwoLookups(c, "", p) : c \in Conversions \ {""}, p \in 0..MaxPad}
LookupFields ==
    {OneLookup(c, p) : c \in Conversions, p \in 0..MaxPad}
    \cup {TwoLookups(c1, c2, p) : c1 \in Conversions, c2 \in Conversions, p \in 0..MaxPad}

TypeDocs == {Doc(<<Entry(Chars("r"), f)>>) : f \in LookupFields}
TypeInit == StartsWithDoc(TypeDocs)
SpecTypes == TypeInit /\ [][Next]_vars

\* C10: a field in which one states(...) lookup feeds round without a float
\* or int conversion gets exactly one warning that recommends the
\* conversion, also when another lookup of the field is converted.
UnconvertedRoundIsWarnedOnce ==
    pc = "done" =>
        \A i \in StringFields :
            data.variables[i].value \in OneUnconverted
                => About("states_round", data.variables[i].name) = 1

(***************************************************************************)
(* Order of the variables                                                  *)
(***************************************************************************)
OrderingNames == {"a", "b", "length"}
\* the templates that reference the variable u
ReferenceShapes == {<<"{{ ", " | float(0) }}">>, <<"{{ ", " + 1 }}">>,
                    <<"It's {{ ", " }} o'clock">>}
References(u) == {Chars(shape[1]) \o u \o Chars(shape[2]) : shape \in ReferenceShapes}
\* two variables, each a constant or a reference to the other, in both orders
OrderingSections ==
    {<<Entry(Chars(n1), v1), Entry(Chars(n2), v2)>> :
        <<n1, n2, v1, v2>> \in
            {q \in OrderingNames \X OrderingNames
                    \X ({Chars("{{ 1 }}")} \cup UNION {References(Chars(n)) : n \in OrderingNames})
                    \X ({Chars("{{ 1 }}")} \cup UNION {References(Chars(n)) : n \in OrderingNames}) :
                /\ q[1] # q[2]
                /\ q[3] \in {Chars("{{ 1 }}")} \cup References(Chars(q[2]))
                /\ q[4] \in {Chars("{{ 1 }}")} \cup References(Chars(q[1]))}}
OrderingDocs == {Doc(v) : v \in OrderingSections}
OrderingInit == StartsWithDoc(OrderingDocs)
SpecOrdering == OrderingInit /\ [][Next]_vars

\* C1: when the template of a variable V references a variable U declared
\* after V, the errors hold exactly one forward-reference error, and it
\* names V and U.
ForwardReferenceIsReportedOnce ==
    pc = "done" =>
        \A i, j \in 1..Len(data.variables) :
            (i < j /\ data.variables[i].value \in References(data.variables[j].name))
            => CountOf(errors,
                       LAMBDA d : d = ForwardRefError(data.variables[i].name,
                                                      data.variables[j].name)) = 1

(***************************************************************************)
(* References to names that are not defined                                *)
(***************************************************************************)
\* templates in which the identifier foo occurs only inside a quoted
\* string literal
QuotedOnly == {Chars(t) : t \in {
    "{{ 'foo' }}", "{{ \"foo\" }}", "{{ 'foo' ~ \"foo\" }}",
    "{{ \"foo 'a\" ~ 'b' }}", "{{ 'foo \"a' ~ \"b\" }}",
    "{{ '{{ foo }}' }}", "{{ '{% foo %}' }}", "{{ 'foo %' }}", "{{ 'a}foo' }}"}}

\* the block openers: plain, and with the whitespace-control marker
ForOpeners == {"{%", "{%-"}
\* a loop over a literal list that binds `names` and uses them in its body
ForLoopOver(opener, p, names, body) ==
    Chars(opener) \o Pad(p) \o Chars("for ") \o Chars(names) \o Chars(" in [1, 2] %}")
    \o Chars(body) \o Chars("{% endfor %}")
OneNameLoops == {ForLoopOver(o, p, "row", "{{ row }}") : o \in ForOpeners, p \in 0..MaxPad}
TwoNameLoops ==
    {ForLoopOver(o, p, "key, val", "{{ key }}{{ val }}") : o \in ForOpeners, p \in 0..MaxPad}

\* identifiers that nothing defines, of one and of more characters
UndefinedIds == {"q", "x", "qq", "total"}
\* {{ id + 1 }} with p blanks after the identifier
UseOf(id, p) == Chars("{{ ") \o Chars(id) \o Pad(p) \o Chars("+ 1 }}")
Uses == {UseOf(id, p) : id \in UndefinedIds, p \in 0..MaxPad}
\* the names of the variable that holds the template
HolderNames == {"r", "a.b"}

RefDocs ==
    {Doc(<<Entry(Chars(n), f)>>) :
        n \in HolderNames, f \in QuotedOnly \cup OneNameLoops \cup TwoNameLoops \cup Uses}
RefInit == StartsWithDoc(RefDocs)
SpecRefs == RefInit /\ [][Next]_vars

\* the undefined-reference errors of the variable `name` about `token`
Undefined(name, token) ==
    CountOf(errors, LAMBDA d : d = UndefinedError(name, Chars(token)))

\* C3: an identifier that occurs only inside a quoted string literal of a
\* template (also a literal that holds the other quote character, braces,
\* percent signs or template delimiters) gets no undefined-reference error.
QuotedIdentifierIsNotReported ==
    pc = "done" =>
        \A i \in StringFields :
            data.variables[i].value \in QuotedOnly
                => Undefined(data.variables[i].name, "foo") = 0

\* C4: the names bound by `for x in` / `for x, y in` get no
\* undefined-reference error in the template, whatever blanks or
\* whitespace-control marker follow the opener of the block.
LoopNamesAreNotReported ==
    pc = "done" =>
        \A i \in StringFields :
            /\ data.variables[i].value \in OneNameLoops
                    => Undefined(data.variables[i].name, "row") = 0
            /\ data.variables[i].value \in TwoNameLoops
                    => /\ Undefined(data.variables[i].name, "key") = 0
                       /\ Undefined(data.variables[i].name, "val") = 0

\* C5: an identifier of a template that is no builtin, no declared variable
\* and no local binding, and that is not called, gets an undefined-reference
\* error that names it, whatever its length and the name of the variable.
UndefinedIdentifierIsReported ==
    pc = "done" =>
        \A i \in StringFields : \A id \in UndefinedIds, p \in 0..MaxPad :
            (/\ data.variables[i].value = UseOf(id, p)
             /\ Chars(id) \notin JINJA2_BUILTINS \cup Names(data.variables))
            => Undefined(data.variables[i].name, id) >= 1

(***************************************************************************)
(* Two runs on one document.  A run of the script is a process of its own  *)
(* and string hashing is seeded per process, so each run draws its own     *)
(* iteration orders.                                                       *)
(***************************************************************************)
\* the number of runs compared
MaxRuns == 2

\* the run ends: its diagnostics are kept and a fresh validator is built
Rerun ==
    /\ pc = "done"
    /\ Len(runs) + 1 < MaxRuns
    /\ runs' = Append(runs, <<errors, warnings>>)
    /\ errors' = <<>>
    /\ warnings' = <<>>
    /\ data' = Tree("none", <<>>, <<>>, 0, 0, 0, <<>>)
    /\ pc' = "load"
    /\ idx' = 0
    /\ defined_vars' = {}
    /\ defined_variables' = {}
    /\ nonzero_default_vars' = [has |-> FALSE, names |-> {}]
    /\ join_variables' = {}
    /\ used_inputs' = {}
    /\ defined_inputs' = {}
    /\ entity_inputs' = {}
    /\ input_datetime_inputs' = {}
    /\ result' = NoResult
    /\ output' = <<>>
    /\ UNCHANGED <<file, pending>>

NextRuns == Next \/ Rerun

\* u is computed from two helpers, each computed from a helper of its own
HelperChains ==
    <<Var("u", "{{ _a + _b }}"), Var("_a", "{{ _x }}"), Var("_b", "{{ _y }}"),
      Var("_x", "1"), Var("_y", "2")>>
RunDocs ==
    {Doc(HelperChains), Doc(<<Var("r", "{{ foo + bar }}")>>),
     Doc(<<Var("r", "{{ x / y }}"), Var("y", "{{ 1 }}")>>)}
RunsInit == StartsWithDoc(RunDocs)
SpecRuns == RunsInit /\ [][NextRuns]_vars

\* C6: two runs on the same document, each with a fresh validator, end with
\* the same errors and the same warnings in the same order.
RunsAgree ==
    pc = "done" => \A k \in 1..Len(runs) : runs[k] = <<errors, warnings>>

(***************************************************************************)
(* Delimiter balance                                                       *)
(***************************************************************************)
\* the most blank lines put before the text
MaxBlankLines == 2
\* what separates two delimiters: nothing, a blank, a line break
Gaps == {<<>>, <<" ">>, <<"\n">>}
\* the ways to write three {{ and two }} in a row; TRUE stands for {{
Arrangements ==
    {a \in [1..5 -> BOOLEAN] : Cardinality({k \in 1..5 : a[k]}) = 3}
Delimiter(opening) == IF opening THEN <<"{", "{">> ELSE <<"}", "}">>
\* n blank lines, then the five delimiters of a with the gaps g between them
Unbalanced(n, a, g) ==
    [k \in 1..n |-> "\n"] \o Delimiter(a[1]) \o g[1] \o Delimiter(a[2]) \o g[2]
    \o Delimiter(a[3]) \o g[3] \o Delimiter(a[4]) \o g[4] \o Delimiter(a[5])
UnbalancedTexts ==
    {Unbalanced(n, a, g) : n \in 0..MaxBlankLines, a \in Arrangements,
                           g \in [1..4 -> Gaps]}
DelimDocs ==
    {DocWith(<<Var("v", "1")>>, t) : t \in UnbalancedTexts}
    \cup {TextDoc(t) : t \in UnbalancedTexts}
DelimInit == StartsWithDoc(DelimDocs)
SpecDelims == DelimInit /\ [][Next]_vars

\* the errors about the balance of {{ and }}
ExpressionErrors ==
    SelectSeq(errors, LAMBDA d : /\ d.kind \in {"unbalanced_at_line", "unbalanced_at_end"}
                                 /\ d.args = <<Chars("{{"), Chars("}}")>>)
\* the text of the first n lines of the document
FirstLines(n) ==
    LET breaks == {k \in 1..Len(data.content) : data.content[k] = "\n"}
        ends == {k \in breaks : Cardinality({b \in breaks : b < k}) = n - 1}
    IN IF ends = {} THEN data.content
       ELSE SubSeq(data.content, 1, CHOOSE k \in ends : TRUE)
\* the lines after which more }} than {{ have been read
EarlyCloserLines ==
    {n \in 1..(CountChar("\n", data.content) + 1) :
        Count(Chars("}}"), FirstLines(n)) > Count(Chars("{{"), FirstLines(n))}

Section(root, heap) == [root |-> root, heap |-> heap]
Absent == Section(0, <<>>)
\* the values of a heap, each reference moved up by k
Rebase(heap, k) ==
    [i \in 1..Len(heap) |->
        [heap[i] EXCEPT !.items = [j \in 1..Len(heap[i].items) |-> heap[i].items[j] + k]]]
\* the document with the root variables, the inputs and the three sections
Blueprint(root, input, t, c, a) ==
    Tree(root.kind, root.variables, input,
         t.root,
         IF c.root = 0 THEN 0 ELSE c.root + Len(t.heap),
         IF a.root = 0 THEN 0 ELSE a.root + Len(t.heap) + Len(c.heap),
         t.heap \o Rebase(c.heap, Len(t.heap))
                \o Rebase(a.heap, Len(t.heap) + Len(c.heap)))

Input(name, selector) == [name |-> Chars(name), selector |-> selector]
Root(kind, variables) == [kind |-> kind, variables |-> variables]

\* variables: absent / null / a list / e bound to the input X / a number
RootSections ==
    {Root("none", <<>>), Root("null", <<>>), Root("list", <<>>),
     Root("dict", <<Var("e", "!input X")>>), Root("dict", <<Var("n", "{{ 1 }}")>>)}
\* blueprint.input: empty / X, an entity / X, an input_datetime entity /
\* Y, without selector
InputSections ==
    {<<>>, <<Input("X", "entity")>>, <<Input("X", "input_datetime")>>,
     <<Input("Y", "none")>>}

\* trigger: [{platform: state, entity_id: !input X}]
StateTrigger ==
    Section(1, <<List(<<2>>), Dict(<<"platform", "entity_id">>, <<3, 4>>),
                 Str("state"), Str("!input X")>>)
\* trigger: [{platform: state, entity_id: e}]
VariableTrigger ==
    Section(1, <<List(<<2>>), Dict(<<"platform", "entity_id">>, <<3, 4>>),
                 Str("state"), Str("e")>>)

\* condition: [{condition: state, entity_id: !input X}]
StateCondition ==
    Section(1, <<List(<<2>>), Dict(<<"condition", "entity_id">>, <<3, 4>>),
                 Str("state"), Str("!input X")>>)
\* condition: [{or: [{condition: state, entity_id: !input X}]}]
ShorthandCondition ==
    Section(1, <<List(<<2>>), Dict(<<"or">>, <<3>>), List(<<4>>),
                 Dict(<<"condition", "entity_id">>, <<5, 6>>),
                 Str("state"), Str("!input X")>>)
\* condition: [{condition: template, value_template: "{{ a and e }}"}]
TemplateCondition ==
    Section(1, <<List(<<2>>), Dict(<<"condition", "value_template">>, <<3, 4>>),
                 Str("template"), Str("{{ a and e }}")>>)
\* condition: [{condition: and, conditions: [{condition: state,
\*              entity_id: !input X}]}]
NestedCondition ==
    Section(1, <<List(<<2>>), Dict(<<"condition", "conditions">>, <<3, 4>>),
                 Str("and"), List(<<5>>),
                 Dict(<<"condition", "entity_id">>, <<6, 7>>),
                 Str("state"), Str("!input X")>>)

\* action: [{service: light.turn_on, data: {entity_id: !input X}}]
ServiceAction ==
    Section(1, <<List(<<2>>), Dict(<<"service", "data">>, <<3, 4>>),
                 Str("light.turn_on"), Dict(<<"entity_id">>, <<5>>),
                 Str("!input X")>>)
\* action: [{service: light.turn_on, data: {entities: [[!input X]]}}]
ListInListAction ==
    Section(1, <<List(<<2>>), Dict(<<"service", "data">>, <<3, 4>>),
                 Str("light.turn_on"), Dict(<<"entities">>, <<5>>),
                 List(<<6>>), List(<<7>>), Str("!input X")>>)
\* action: [{variables: {v: "{{ as_timestamp(states(e)) }}"}}]
VariablesAction ==
    Section(1, <<List(<<2>>), Dict(<<"variables">>, <<3>>), Dict(<<"v">>, <<4>>),
                 Str("{{ as_timestamp(states(e)) }}")>>)
\* action: [{if: [{condition: state, entity_id: !input X}],
\*           then: [{service: light.turn_on}]}]
IfAction ==
    Section(1, <<List(<<2>>), Dict(<<"if", "then">>, <<3, 4>>),
                 List(<<5>>), List(<<6>>),
                 Dict(<<"condition", "entity_id">>, <<7, 8>>),
                 Dict(<<"service">>, <<9>>),
                 Str("state"), Str("!input X"), Str("light.turn_on")>>)

TreeDocs ==
    {Blueprint(root, input, t, c, a) :
        root \in RootSections, input \in InputSections,
        t \in {Absent, StateTrigger, VariableTrigger},
        c \in {Absent, StateCondition, ShorthandCondition, TemplateCondition,
               NestedCondition},
        a \in {Absent, ServiceAction, ListInListAction, VariablesAction, IfAction}}
\* the files: one per document, and the files that do not load
TreeFiles ==
    {[load |-> "ok", doc |-> d] : d \in TreeDocs}
    \cup {[load |-> load, doc |-> Tree("none", <<>>, <<>>, 0, 0, 0, <<>>)] :
             load \in {"yaml_error", "not_dict", "os_error"}}
TreeInit ==
    /\ \E f \in TreeFiles : FreshOn(f)
    /\ runs = <<>>
    /\ pending = <<>>
SpecTree == TreeInit /\ [][Next]_vars

\* C11: validate() returns False if and only if the error list is not empty
\* when it returns, also when the file could not be loaded; warnings alone
\* never make it return False.
ReturnsFalseIffErrors ==
    pc = "done" => /\ result.kind = "return"
                   /\ result.value = (errors = <<>>)
\* a document with warnings and no errors was found valid
ValidWithWarnings ==
    /\ pc = "done"
    /\ file.load = "ok"
    /\ warnings # <<>>
    /\ errors = <<>>
    /\ result = Returned(TRUE)

\* C12: when validate() has returned, every recorded error has been
\* printed, no error is printed after a warning, and the last line printed
\* is the pass/fail line; so too for the error recorded by a failed load.
ReportIsPrinted ==
    pc = "done" =>
        /\ \A k \in 1..Len(errors) :
                \E i \in 1..Len(output) : output[i] = Line("error", errors[k])
        /\ \A i, j \in 1..Len(output) :
                output[i].kind = "warning" /\ output[j].kind = "error" => j < i
        /\ output # <<>>
        /\ output[Len(output)].kind \in {"valid", "valid_with_warnings", "failed"}

\* C14: validate() never ends with an exception on a document that
\* loaded as a mapping, whatever the root key `variables` holds and
\* whatever the templates of conditions and of action variables are.
ValidateNeverRaises == pc # "raised"

\* C15: once the document is loaded no pass changes it: every step but
\* the one that loads leaves self.data as it is.
DocumentIsOnlyRead == [][pc # "load" => data' = data]_vars
\* the passes have found errors and recorded inputs, and the document is
\* the one that was loaded
DocumentKeptToTheEnd ==
    /\ pc = "done"
    /\ file.load = "ok"
    /\ data = file.doc
    /\ data.trigger # 0
    /\ errors # <<>>
    /\ used_inputs # {}

\* the inputs named by an `!input X` value of the document: by a root
\* variable, or by a string anywhere in triggers, conditions and actions
MentionedInputs ==
    UNION {collect_input_refs(data.variables[i].value) :
              i \in {i \in 1..Len(data.variables) : data.variables[i].str}}
    \cup UNION {collect_input_refs(data.heap[r].s) :
                   r \in {r \in 1..Len(data.heap) : data.heap[r].t = "str"}}
\* the errors that name the input as undefined
UndefinedInputErrors(input_name) ==
    SelectSeq(errors, LAMBDA d : d = Diag("undefined_input", <<input_name>>, <<>>))

\* C17: after validate(), every input that an `!input X` value of the
\* document names and blueprint.input does not define is named by exactly
\* one 'Undefined input reference' error, and no input that is defined is
\* named by one.
UndefinedInputsAreReported ==
    pc = "done" =>
        /\ \A input_name \in MentionedInputs \ defined_inputs :
                Len(UndefinedInputErrors(input_name)) = 1
        /\ \A input_name \in defined_inputs :
                Len(UndefinedInputErrors(input_name)) = 0

(***************************************************************************)
(* Documents whose values refer back to themselves.  An alias inside the   *)
(* value its anchor names makes the loader return a value that contains    *)
(* itself.                                                                 *)
(***************************************************************************)
\* action: &a [{if: [], then: *a}]
CyclicAction ==
    Section(1, <<List(<<2>>), Dict(<<"if", "then">>, <<3, 1>>), List(<<>>)>>)
\* condition: &c [{condition: and, conditions: *c}]
CyclicCondition ==
    Section(1, <<List(<<2>>), Dict(<<"condition", "conditions">>, <<3, 1>>),
                 Str("and")>>)
\* trigger: [&t {platform: event, event_data: *t}]
CyclicTrigger ==
    Section(1, <<List(<<2>>), Dict(<<"platform", "event_data">>, <<3, 2>>),
                 Str("event")>>)
\* action: [{if: [], then: [{if: [], then: [{service: light.turn_on}]}]}]
DeepAction ==
    Section(1, <<List(<<2>>), Dict(<<"if", "then">>, <<3, 4>>), List(<<>>),
                 List(<<5>>), Dict(<<"if", "then">>, <<6, 7>>), List(<<>>),
                 List(<<8>>), Dict(<<"service">>, <<9>>), Str("light.turn_on")>>)
\* variables: a and b, each computed from the other
CyclicVariables == Root("dict", <<Var("a", "{{ b }}"), Var("b", "{{ a }}")>>)

CycleDocs ==
    {Blueprint(root, <<>>, t, c, a) :
        root \in {Root("none", <<>>), CyclicVariables},
        t \in {Absent, StateTrigger, CyclicTrigger},
        c \in {Absent, NestedCondition, CyclicCondition},
        a \in {Absent, IfAction, DeepAction, CyclicAction}}
CycleInit == StartsWithDoc(CycleDocs)
\* the positions of validate()
Positions ==
    {"load", "inputs", "variables", "collect", "ordering", "math_safety", "undefined",
     "unsafe_math", "type_mismatch", "define", "version", "triggers", "conditions",
     "actions", "templates", "input_references", "report", "done", "raised"}
\* validate() runs on: from a position that is not its end, after a return
\* or an exception, it moves to another
Advance ==
    /\ pc \notin {"done", "raised"}
    /\ pc' \in Positions \ {pc}
SpecCycles == CycleInit /\ [][Next]_vars /\ WF_pc(Advance)

\* C13: once the document is loaded, validate() reaches its return, also
\* when the variables refer to each other in a cycle and when an action,
\* condition or trigger is deeply nested or contains one of its ancestors.
LoadedDocumentIsReturnedFrom == (pc = "inputs") ~> (pc = "done")

(***************************************************************************)
(* A batch.  validate_all validates the files it found one after the       *)
(* other in one process, each with a validator it constructs for that      *)
(* file.  The tables of the class are read by every validator and written  *)
(* by none, so they are definitions here and not part of the state.        *)
(***************************************************************************)
\* the number of files in a batch
MaxBatch == 3

\* a validator that is given the next file without being constructed anew
Reuse(f) ==
    /\ file' = f
    /\ UNCHANGED <<data, errors, warnings, join_variables, defined_inputs,
                   used_inputs, input_datetime_inputs, entity_inputs,
                   defined_variables>>

\* BlueprintValidator(bp): the attributes __init__ sets
Construct(f) ==
    /\ file' = f
    /\ data' = Tree("none", <<>>, <<>>, 0, 0, 0, <<>>)
    /\ errors' = <<>>
    /\ warnings' = <<>>
    /\ join_variables' = {}
    /\ defined_inputs' = {}
    /\ used_inputs' = {}
    /\ input_datetime_inputs' = {}
    /\ entity_inputs' = {}
    /\ defined_variables' = {}
\* the loop of validate_all: the diagnostics of the file are kept for the
\* comparison, and the next file gets its validator
NextBlueprint ==
    /\ pc = "done"
    /\ pending # <<>>
    /\ runs' = Append(runs, [file |-> file, errors |-> errors, warnings |-> warnings])
    /\ Construct(Head(pending))
    /\ pending' = Tail(pending)
    /\ pc' = "load"
    /\ idx' = 0
    /\ defined_vars' = {}
    /\ nonzero_default_vars' = [has |-> FALSE, names |-> {}]
    /\ result' = NoResult
    /\ output' = <<>>

NextBatch == Next \/ NextBlueprint

\* action: [{service: light.turn_on, target: {entity_id: "{{ j }}"}}]
TemplateTargetAction ==
    Section(1, <<List(<<2>>), Dict(<<"service", "target">>, <<3, 4>>),
                 Str("light.turn_on"), Dict(<<"entity_id">>, <<5>>),
                 Str("{{ j }}")>>)
\* documents that differ in what one validator would record: the inputs
\* defined, the entity inputs, the joined variables, the non-zero defaults
BatchDocs ==
    {Blueprint(Root("dict", <<Var("e", "!input X")>>), <<Input("X", "entity")>>,
               Absent, TemplateCondition, Absent),
     Blueprint(Root("dict", <<Var("e", "!input X")>>), <<>>,
               Absent, TemplateCondition, Absent),
     Blueprint(Root("dict", <<Var("j", "{{ xs | join(',') }}")>>), <<>>,
               Absent, Absent, TemplateTargetAction),
     Blueprint(Root("dict", <<Var("j", "{{ 1 }}")>>), <<>>,
               Absent, Absent, TemplateTargetAction),
     Doc(<<Var("y", "{{ states('s.y') | float(1) }}"), Var("r", "{{ 1 / y }}")>>),
     Doc(<<Var("y", "{{ states('s.y') | float(0) }}"), Var("r", "{{ 1 / y }}")>>)}
BatchInit ==
    /\ \E batch \in [1..MaxBatch -> BatchDocs] :
            /\ Fresh(batch[1])
            /\ pending = [k \in 1..(MaxBatch - 1) |-> [load |-> "ok", doc |-> batch[k + 1]]]
    /\ runs = <<>>
SpecBatch == BatchInit /\ [][NextBatch]_vars

\* C16: what is reported for a document does not depend on the documents
\* validated before it in the batch: a document validated again later in
\* the batch, after any others, gets the errors and warnings it got before.
BatchIndependent ==
    pc = "done" =>
        \A k \in 1..Len(runs) :
            runs[k].file = file =>
                runs[k].errors = errors /\ runs[k].warnings = warnings
\* a document has been validated a second time, after a different one, and
\* something was reported for it
ValidatedAgainAfterAnother ==
    /\ pc = "done"
    /\ Len(runs) = 2
    /\ runs[1].file = file
    /\ runs[2].file # file
    /\ errors # <<>>
    /\ warnings # <<>>

(***************************************************************************)
(* Texts of delimiters in any order                                        *)
(***************************************************************************)
\* the number of delimiters in a text
MaxTokens == 4
Delimiters == {"{{", "}}", "{%", "%}", "{#", "#}"}
\* the delimiters of a sequence, a blank after each
Spaced(tokens) == Concat([k \in 1..Len(tokens) |-> Chars(tokens[k]) \o <<" ">>])
PairTexts == {Spaced(tokens) : tokens \in [1..MaxTokens -> Delimiters]}
\* files with one variable and the delimiters after it
PairInit == StartsWithDoc({DocWith(<<Var("v", "1")>>, t) : t \in PairTexts})
SpecPairs == PairInit /\ [][Next]_vars

\* every opener of the pair has its closer after it: no prefix of the text
\* has more closers than openers, and the text has as many of both
Matched(open_tag, close_tag, text) ==
    /\ \A n \in 0..Len(text) :
            Count(Chars(open_tag), SubSeq(text, 1, n))
                >= Count(Chars(close_tag), SubSeq(text, 1, n))
    /\ Count(Chars(open_tag), text) = Count(Chars(close_tag), text)
\* the 'Unbalanced' errors for the pair
UnbalancedErrors(open_tag, close_tag) ==
    SelectSeq(errors, LAMBDA d : /\ d.kind \in {"unbalanced_at_line", "unbalanced_at_end"}
                                 /\ d.args = <<Chars(open_tag), Chars(close_tag)>>)

\* C18: when the check has reported no 'Unbalanced' error for a pair of
\* delimiters, every opener of that pair in the document has its closer
\* after it.
NoUnbalancedErrorMeansMatched ==
    pc = "done" =>
        \A pair \in {<<"{{", "}}">>, <<"{%", "%}">>, <<"{#", "#}">>} :
            UnbalancedErrors(pair[1], pair[2]) = <<>>
                => Matched(pair[1], pair[2], file.doc.content)

(***************************************************************************)
(* Fields that call asin and acos                                          *)
(***************************************************************************)
\* the clamping idiom in both orders, with blanks after the commas or not
ClampedArguments ==
    {Chars(a) : a \in {"max(-1, min(1, x))", "min(1, max(-1, x))",
                       "max(-1,min(1,x))", "min(1,max(-1,x))"}}
\* literals from -1 to 1
UnitArguments == {Chars(a) : a \in {"0", "1", "-1", "0.5", "-0.25", "1.0"}}
\* arguments that are neither
OpenArguments == {Chars(a) : a \in {"x", "x * 2", "x / 90", "2", "1.5", "-1.5"}}
\* {{ func(pad arg) }}
TrigCall(func, n, arg) == Chars("{{ ") \o Chars(func) \o <<"(">> \o Pad(n) \o arg \o Chars(") }}")
TrigFields(arguments) ==
    {TrigCall(func, n, arg) : func \in {"asin", "acos"}, n \in 0..MaxPad, arg \in arguments}
TrigDocs ==
    {Doc(<<Entry(Chars("r"), f)>>) :
        f \in TrigFields(ClampedArguments \cup UnitArguments \cup OpenArguments)}
TrigInit == StartsWithDoc(TrigDocs)
SpecTrig == TrigInit /\ [][Next]_vars

\* the warnings about the argument of asin or acos
TrigWarnings == SelectSeq(warnings, LAMBDA d : d.kind = "trig_range")

\* C19: asin or acos of the clamping idiom, max(-1, min(1, x)) or
\* min(1, max(-1, x)), gets no warning, and a call whose argument is
\* neither a literal from -1 to 1 nor the clamping idiom gets one.
ClampedTrigIsNotWarned ==
    pc = "done" =>
        /\ data.variables[1].value \in TrigFields(ClampedArguments)
                => TrigWarnings = <<>>
        /\ data.variables[1].value \in TrigFields(OpenArguments)
                => Len(TrigWarnings) = 1

(***************************************************************************)
(* Fields that divide by v or take a remainder by v, with a comparison     *)
(***************************************************************************)
\* the comparisons on v
GuardsOfV == {Chars(g) : g \in {"v > 0", "v != 0", "v is number"}}
\* the same comparisons on other identifiers
GuardsOfOthers ==
    {Chars(g) : g \in {"w > 0", "w != 0", "w is number", "wv > 0", "wv != 0",
                       "wv is number"}}
\* {{ a op v if guard else 0 }}
GuardedField(op, n, guard) ==
    Chars("{{ a ") \o <<op>> \o Pad(n) \o Chars("v if ") \o guard \o Chars(" else 0 }}")
GuardedFields(guards) ==
    {GuardedField(op, n, guard) : op \in {"/", "%"}, n \in 0..MaxPad, guard \in guards}
GuardDocs ==
    {Doc(<<Entry(Chars("r"), f)>>) : f \in GuardedFields(GuardsOfV \cup GuardsOfOthers)}
GuardInit == StartsWithDoc(GuardDocs)
SpecGuards == GuardInit /\ [][Next]_vars

\* the warnings about dividing by v or taking a remainder by v
WarningsAboutV ==
    SelectSeq(warnings, LAMBDA d : /\ d.kind \in {"division", "modulo"}
                                   /\ d.args = <<Chars("r"), Chars("v")>>)

\* C20: for a division and for a modulo by v, a comparison v > 0, v != 0
\* or v is number anywhere in the field leaves no warning about v, and
\* such a comparison on another identifier leaves the warning.
GuardOnOperandSuppresses ==
    pc = "done" =>
        /\ data.variables[1].value \in GuardedFields(GuardsOfV)
                => WarningsAboutV = <<>>
        /\ data.variables[1].value \in GuardedFields(GuardsOfOthers)
                => Len(WarningsAboutV) = 1

(***************************************************************************)
(* Occurrences of a name that are no references                            *)
(***************************************************************************)
LaterNames == {"b", "state"}
\* the name u inside a string literal
QuotedShapes == {<<"{{ '", "' }}">>, <<"{{ \"", "\" }}">>, <<"{{ 'on ", " off' | upper }}">>}
\* the name u as an attribute: immediately after a "."
AttributeShapes == {<<"{{ trigger.", " }}">>, <<"{{ trigger.to_state.", " | lower }}">>}
\* the name u as a keyword argument: immediately before "="
KeywordShapes == {<<"{{ dict(", "=1) }}">>, <<"{{ now().replace(", "=0) }}">>}
Shaped(shapes, u) == {Chars(shape[1]) \o u \o Chars(shape[2]) : shape \in shapes}
NonReferences(u) == Shaped(QuotedShapes \cup AttributeShapes \cup KeywordShapes, u)
\* a variable whose template holds the name of the variable declared after
\* it, at a place where it is no reference or as a reference
PositionDocs ==
    {Doc(<<Entry(Chars("a"), v), Var(n, "{{ 1 }}")>>) :
        <<n, v>> \in {q \in LaterNames \X UNION {NonReferences(Chars(n)) \cup References(Chars(n)) :
                                                    n \in LaterNames} :
                        q[2] \in NonReferences(Chars(q[1])) \cup References(Chars(q[1]))}}
PositionInit == StartsWithDoc(PositionDocs)
SpecPositions == PositionInit /\ [][Next]_vars

\* C21: a declared name that occurs in a template only inside a string
\* literal, immediately after a "." or immediately before "=" is not a
\* reference: it gives no forward-reference error and no dependency edge.
OccurrenceOutsideReferencePositionIsNoReference ==
    pc = "done" =>
        \A i, j \in 1..Len(data.variables) :
            (i < j /\ data.variables[i].value \in NonReferences(data.variables[j].name))
            => /\ ForwardRefError(data.variables[i].name, data.variables[j].name)
                    \notin Range(errors)
               /\ data.variables[j].name \notin VarRefs(data.variables, i)

(***************************************************************************)
(* Cycles of references between the variables                              *)
(***************************************************************************)
LoopNames == <<"a", "b", "c">>
\* the sections of one to three variables, each a constant or computed from
\* one variable of the section, itself included
LoopSections ==
    UNION {{[i \in 1..n |-> Entry(Chars(LoopNames[i]), values[i])] :
                values \in [1..n -> {Chars("{{ 1 }}")}
                                    \cup {Chars("{{ ") \o Chars(LoopNames[j]) \o Chars(" + 1 }}") :
                                            j \in 1..n}]} :
           n \in 1..Len(LoopNames)}
LoopDocs == {Doc(v) : v \in LoopSections}
LoopInit == StartsWithDoc(LoopDocs)
SpecLoops == LoopInit /\ [][Next]_vars

\* the index of the variable that the variable at index i is computed from,
\* 0 when it is a constant
Target(variables, i) ==
    IF i = 0 \/ \A j \in 1..Len(variables) :
                    variables[i].value # Chars("{{ ") \o variables[j].name \o Chars(" + 1 }}")
    THEN 0
    ELSE CHOOSE j \in 1..Len(variables) :
            variables[i].value = Chars("{{ ") \o variables[j].name \o Chars(" + 1 }}")
\* the variables reached from the variable at index i in 1 to k steps
RECURSIVE Orbit(_, _, _)
Orbit(variables, i, k) ==
    IF k = 0 \/ i = 0 THEN {}
    ELSE ({Target(variables, i)} \ {0}) \cup Orbit(variables, Target(variables, i), k - 1)

\* C22: when the references between the declared variables form a cycle, of
\* one variable or more, the errors hold a forward-reference error for an
\* edge of that cycle.
CycleHasForwardReferenceError ==
    pc = "done" =>
        \A i \in 1..Len(data.variables) :
            i \in Orbit(data.variables, i, Len(data.variables))
            => \E u \in Orbit(data.variables, i, Len(data.variables)) :
                    ForwardRefError(data.variables[u].name,
                                    data.variables[Target(data.variables, u)].name)
                        \in Range(errors)
\* the same for the cycles of two variables or more
LongerCycleHasForwardReferenceError ==
    pc = "done" =>
        \A i \in 1..Len(data.variables) :
            (i \in Orbit(data.variables, i, Len(data.variables)) /\ Target(data.variables, i) # i)
            => \E u \in Orbit(data.variables, i, Len(data.variables)) :
                    ForwardRefError(data.variables[u].name,
                                    data.variables[Target(data.variables, u)].name)
                        \in Range(errors)

(***************************************************************************)
(* Chains of helper variables                                              *)
(***************************************************************************)
\* how the consumer u uses the helper _b
ConsumerShapes == {"{{ _b }}", "{{ _b + 1 }}", "{{ _b | float(0) }}"}
\* u computed from _b alone, _b from _c alone: the linear chain
LinearChains == {<<Var("_c", "{{ 1 }}"), Var("_b", "{{ _c }}"), Var("u", shape)>> :
                    shape \in ConsumerShapes}
\* u computed from _b alone, and _b from two helpers
ForkedChains == {<<Var("_c", "{{ 1 }}"), Var("_d", "{{ 2 }}"), Var("_b", "{{ _c + _d }}"),
                   Var("u", shape)>> : shape \in ConsumerShapes}
\* u computed from a helper that is computed from no other
LoneHelpers == {<<Var("_b", "{{ 1 }}"), Var("u", shape)>> : shape \in ConsumerShapes}
ChainDocs == {Doc(v) : v \in LinearChains \cup ForkedChains \cup LoneHelpers}
                \cup {Doc(HelperChains)}
ChainInit == StartsWithDoc(ChainDocs)
SpecChains == ChainInit /\ [][Next]_vars

\* the variables whose template references the name
UsedBy(variables, name) == {i \in 1..Len(variables) : name \in VarRefs(variables, i)}
\* a helper referenced by exactly one declared variable
SingleUseHelper(variables, name) ==
    IsHelperName(name) /\ Cardinality(UsedBy(variables, name)) = 1
\* the consumers fed by a single-use helper whose own template references
\* another single-use helper
ChainConsumers(variables) ==
    {u \in 1..Len(variables) :
        \E h \in 1..Len(variables) :
            /\ SingleUseHelper(variables, variables[h].name)
            /\ UsedBy(variables, variables[h].name) = {u}
            /\ \E ref \in VarRefs(variables, h) : SingleUseHelper(variables, ref)}

\* C23: every consumer fed by a single-use helper that itself references
\* another single-use helper gets exactly one helper-chain warning, the
\* consumer of a linear chain u <- _b <- _c included.
ChainConsumerIsWarnedOnce ==
    pc = "done" =>
        \A u \in ChainConsumers(data.variables) :
            About("helper_chain", data.variables[u].name) = 1

(***************************************************************************)
(* Filter pipelines                                                        *)
(***************************************************************************)
\* the most stages of a pipeline
MaxStages == 3
\* a stage: its text, the type it gives ("unknown" for a filter outside the
\* type table) and whether it expects a string
Stage(text, gives, expects_string) ==
    [text |-> Chars(text), gives |-> gives, expects_string |-> expects_string]
Stages ==
    {Stage("int", "number", FALSE), Stage("round(1)", "number", FALSE),
     Stage("string", "string", FALSE), Stage("lower", "string", TRUE),
     Stage("first", "any", FALSE), Stage("timestamp_custom('%H')", "unknown", FALSE)}
Pipelines == UNION {[1..n -> Stages] : n \in 1..MaxStages}
\* {{ x | stage | stage }}
PipelineText(stages) ==
    Chars("{{ x") \o Concat([k \in 1..Len(stages) |-> Chars(" | ") \o stages[k].text])
        \o Chars(" }}")
PipelineDocs ==
    {Doc(<<Var("x", "{{ 1 }}"), Entry(Chars("r"), PipelineText(stages))>>) :
        stages \in Pipelines}
PipelineInit == StartsWithDoc(PipelineDocs)
SpecPipelines == PipelineInit /\ [][Next]_vars

\* the pipelines in which no stage that expects a string comes directly
\* after a stage that gives a number: where one comes after a number it is
\* with a stage of unknown effect, or of another type, in between
NoStringStageOnNumber ==
    {stages \in Pipelines :
        \A k \in 2..Len(stages) :
            stages[k].expects_string => stages[k - 1].gives # "number"}

\* C24: after a stage of unknown effect on the type the type is Any, so a
\* later stage gets no type-mismatch warning until a known stage sets the
\* type again: a pipeline in which every string stage that follows a number
\* is separated from it by another stage has no such warning.
UnknownStageStopsTypeChecks ==
    pc = "done" =>
        \A stages \in NoStringStageOnNumber :
            data.variables[2].value = PipelineText(stages)
            => About("string_filter_on_number", Chars("r")) = 0

(***************************************************************************)
(* The numeric checks and the two lists                                    *)
(***************************************************************************)
\* one call of each kind the numeric checks look at, without a guard
NumericCalls == {"log(x)", "a / x", "a % x", "sqrt(x)", "asin(x)", "acos(x)"}
\* a template with one call or the sum of two
NumericFields ==
    {Chars("{{ ") \o Chars(c) \o Chars(" }}") : c \in NumericCalls}
    \cup {Chars("{{ ") \o Chars(c) \o Chars(" + ") \o Chars(d) \o Chars(" }}") :
            c \in NumericCalls, d \in NumericCalls}
\* the variable r holds the template; alone, or after a variable q that
\* references r, which gives an error before the numeric checks of r run
NumericDocs ==
    {Doc(<<Entry(Chars("r"), f)>>) : f \in NumericFields}
    \cup {Doc(<<Var("q", "{{ r }}"), Entry(Chars("r"), f)>>) : f \in NumericFields}
NumericInit == StartsWithDoc(NumericDocs)
SpecNumeric == NumericInit /\ [][Next]_vars

\* C25: the numeric safety checks (division, modulo, log, sqrt, asin, acos)
\* leave the error list as it is and only append to the warning list.
NumericChecksOnlyWarn ==
    [][(pc = "math_safety" \/ pc = "unsafe_math")
        => (/\ errors' = errors
            /\ Len(warnings') >= Len(warnings)
            /\ SubSeq(warnings', 1, Len(warnings)) = warnings)]_vars
\* both numeric checks have run on r and each has appended a warning, with
\* an error recorded before them
BothNumericChecksWarned ==
    /\ pc = "type_mismatch"
    /\ Cur.name = Chars("r")
    /\ ForwardRefError(Chars("q"), Chars("r")) \in Range(errors)
    /\ About("log", Chars("r")) = 1
    /\ About("trig_range", Chars("r")) = 1

(***************************************************************************)
(* Delimiters over several lines                                           *)
(***************************************************************************)
\* the most lines after the variables section
MaxLines == 3
\* what a line holds
LineTexts == {"x", "{{", "}}", "{{ }}", "}} {{", "{%", "%}", "#}"}
Joined(lines) ==
    Concat([k \in 1..Len(lines) |->
                Chars(lines[k]) \o (IF k = Len(lines) THEN <<>> ELSE <<"\n">>)])
LinesTexts == {Joined(lines) : lines \in UNION {[1..n -> LineTexts] : n \in 1..MaxLines}}
LinesInit == StartsWithDoc({DocWith(<<Var("v", "1")>>, t) : t \in LinesTexts})
SpecLines == LinesInit /\ [][Next]_vars

\* the lines at whose end more closers than openers of the pair have been
\* read
EarlyCloserLinesOf(open_tag, close_tag) ==
    {n \in 1..(CountChar("\n", data.content) + 1) :
        Count(Chars(close_tag), FirstLines(n)) > Count(Chars(open_tag), FirstLines(n))}

\* C26: a delimiter pair whose openers and closers differ in number gets
\* exactly one 'Unbalanced' error, with both counts; it gives the first
\* line at whose end the running balance of openers minus closers is
\* negative, and when the balance is never negative it gives no line and
\* reports the closing delimiter missing at the end.
UnbalancedPairIsReportedOnce ==
    pc = "done" =>
        \A pair \in {<<"{{", "}}">>, <<"{%", "%}">>, <<"{#", "#}">>} :
            Count(Chars(pair[1]), data.content) # Count(Chars(pair[2]), data.content)
            => /\ Len(UnbalancedErrors(pair[1], pair[2])) = 1
               /\ SubSeq(UnbalancedErrors(pair[1], pair[2])[1].nums, 1, 2)
                    = <<Count(Chars(pair[1]), data.content),
                        Count(Chars(pair[2]), data.content)>>
               /\ IF EarlyCloserLinesOf(pair[1], pair[2]) = {}
                  THEN UnbalancedErrors(pair[1], pair[2])[1].kind = "unbalanced_at_end"
                  ELSE /\ UnbalancedErrors(pair[1], pair[2])[1].kind = "unbalanced_at_line"
                       /\ UnbalancedErrors(pair[1], pair[2])[1].nums[3]
                            \in EarlyCloserLinesOf(pair[1], pair[2])
                       /\ \A n \in EarlyCloserLinesOf(pair[1], pair[2]) :
                            UnbalancedErrors(pair[1], pair[2])[1].nums[3] <= n
\* more {% than %}, and a %} before the first {%: the error gives its line
EarlyBlockCloserReported ==
    /\ pc = "done"
    /\ data.content = FileText(<<Var("v", "1")>>) \o Chars("%}\n{%\n{%")
    /\ UnbalancedErrors("{%", "%}")
         = <<Diag("unbalanced_at_line", <<Chars("{%"), Chars("%}")>>, <<2, 1, 2>>)>>

(***************************************************************************)
(* Control blocks over several lines                                       *)
(***************************************************************************)
\* a line holds one block tag, written plainly or with the whitespace
\* control marker
BlockLines == {"{% if x %}", "{%- if x %}", "{% endif %}", "{%- endif %}",
               "{% for i in y %}", "{% endfor %}"}
BlockTexts == {Joined(lines) : lines \in UNION {[1..n -> BlockLines] : n \in 1..MaxLines}}
BlockInit == StartsWithDoc({DocWith(<<Var("v", "1")>>, t) : t \in BlockTexts})
SpecBlocks == BlockInit /\ [][Next]_vars

\* the keyword pairs the texts use
UsedBlockPairs == {<<"if", "endif">>, <<"for", "endfor">>}
\* the tags of a keyword in a text, in the plain form / in both forms
PlainTags(kw, text) == Count(Chars("{% ") \o Chars(kw) \o <<" ">>, text)
Tags(kw, text) == PlainTags(kw, text) + Count(Chars("{%- ") \o Chars(kw) \o <<" ">>, text)
\* the lines at whose end more closers than openers of the pair have been read
EarlyBlockCloserLines(open_kw, close_kw) ==
    {n \in 1..(CountChar("\n", data.content) + 1) :
        Tags(close_kw, FirstLines(n)) > Tags(open_kw, FirstLines(n))}
\* the errors of _check_control_block_balance
BlockErrors == SelectSeq(errors, LAMBDA d : d.kind \in {"unclosed_block", "orphan_close"})

\* C27: for a keyword pair with more closers than openers the line reported
\* is that of the first closer at which the running balance of the pair
\* becomes negative (here in texts whose tags are all written plainly).
OrphanCloserLineIsFirstNegative ==
    pc = "done" =>
        \A pair \in UsedBlockPairs :
            (/\ ~Contains(Chars("{%-"), data.content)
             /\ PlainTags(pair[2], data.content) > PlainTags(pair[1], data.content))
            => \E k \in 1..Len(BlockErrors) :
                    /\ BlockErrors[k].kind = "orphan_close"
                    /\ BlockErrors[k].args = <<Chars(pair[2])>>
                    /\ BlockErrors[k].nums[3] \in EarlyBlockCloserLines(pair[1], pair[2])
                    /\ \A n \in EarlyBlockCloserLines(pair[1], pair[2]) :
                            BlockErrors[k].nums[3] <= n

\* every opener of the pair has its closer after it, in either form
BlocksMatched(open_kw, close_kw) ==
    /\ EarlyBlockCloserLines(open_kw, close_kw) = {}
    /\ Tags(open_kw, data.content) = Tags(close_kw, data.content)

\* C28: a document in which every control-block opener has a matching
\* closer of the same keyword pair gets no error from the control-block
\* check, whether its tags are written {% kw or {%- kw or both.
MatchedBlocksGetNoError ==
    pc = "done" =>
        ((\A pair \in UsedBlockPairs : BlocksMatched(pair[1], pair[2]))
            => BlockErrors = <<>>)

(***************************************************************************)
(* The variables defined so far                                            *)
(***************************************************************************)
\* the variable of a name: a number, a constant template, a template that
\* references c
VariablesNamed(name) == {NonStringVar(name), Var(name, "{{ 1 }}"), Var(name, "{{ c + 1 }}")}
\* the sections of one to three variables
DefinedSections ==
    {<<v1>> : v1 \in VariablesNamed("a")}
    \cup {<<v1, v2>> : v1 \in VariablesNamed("a"), v2 \in VariablesNamed("b")}
    \cup {<<v1, v2, v3>> : v1 \in VariablesNamed("a"), v2 \in VariablesNamed("b"),
                           v3 \in VariablesNamed("c")}
DefinedInit == StartsWithDoc({Doc(v) : v \in DefinedSections})
SpecDefined == DefinedInit /\ [][Next]_vars

\* the positions of the loop over the variables
LoopPositions ==
    {"collect", "ordering", "math_safety", "undefined", "unsafe_math", "type_mismatch",
     "define"}

\* C29: while the variable at index i is checked, the variables defined so
\* far are exactly those declared before it, the ones whose value is no
\* string included; the variable itself joins them after its checks.
DefinedVarsAreTheEarlierOnes ==
    pc \in LoopPositions =>
        defined_vars = {data.variables[j].name : j \in 1..(idx - 1)}
\* the third variable is being checked after a first one that is a number
CheckedAfterNonString ==
    /\ pc = "ordering"
    /\ idx = 3
    /\ ~data.variables[1].str
    /\ defined_vars = {Chars("a"), Chars("b")}

(***************************************************************************)
(* The order of the diagnostics                                            *)
(***************************************************************************)
\* u is computed from two helpers, each computed from a helper of its own,
\* the first of which divides by an unknown n
LateConsumer ==
    <<Var("_x", "{{ 1 / n }}"), Var("_y", "{{ 2 }}"), Var("_a", "{{ _x }}"),
      Var("_b", "{{ _y }}"), Var("u", "{{ _a + _b }}")>>
\* two forward references and a square root
ForwardTwice == <<Var("a", "{{ b }}"), Var("b", "{{ c }}"), Var("c", "{{ sqrt(a) }}")>>
\* documents with diagnostics from several passes; the text of the file is
\* that of the variables section, alone or followed by an unclosed {{
SequenceDocs ==
    {[Blueprint(Root("dict", variables), input, t, c, a) EXCEPT !.content = @ \o rest] :
        variables \in {LateConsumer, ForwardTwice, <<Var("e", "!input X")>>},
        input \in {<<>>, <<Input("Y", "none")>>, <<Input("X", "entity")>>},
        t \in {Absent, StateTrigger},
        c \in {Absent, TemplateCondition},
        a \in {Absent, VariablesAction, ServiceAction},
        rest \in {<<>>, Chars("{{ x")}}
SequenceInit == StartsWithDoc(SequenceDocs)
SpecSequence == SequenceInit /\ [][Next]_vars

\* the positions of validate(), pass by pass
Passes ==
    <<{"load"}, {"inputs"},
      {"variables", "collect", "ordering", "math_safety", "undefined", "unsafe_math",
       "type_mismatch", "define", "version"},
      {"triggers"}, {"conditions"}, {"actions"}, {"templates"}, {"input_references"},
      {"report"}, {"done", "raised"}>>
PassOf(position) == CHOOSE k \in 1..Len(Passes) : position \in Passes[k]
\* new is old with diagnostics appended
Extends(old, new) == Len(new) >= Len(old) /\ SubSeq(new, 1, Len(old)) = old
\* what new holds after old
AppendedTo(old, new) == {new[k] : k \in (Len(old) + 1)..Len(new)}
\* the declaration index of a variable
DeclaredAt(name) == CHOOSE i \in 1..Len(data.variables) : data.variables[i].name = name
\* the kinds of the warnings that _validate_variables gives about a variable
VariableWarningKinds ==
    {"helper_chain", "division", "log", "sqrt", "modulo", "trig_range",
     "string_filter_on_number", "states_round", "state_attr_numeric"}

\* C30, as stated, for the warnings of the variables pass: a warning about
\* a variable declared earlier precedes every warning about a variable
\* declared later.
VariableWarningsFollowDeclaration ==
    pc = "done" =>
        \A k, l \in 1..Len(warnings) :
            (/\ k < l
             /\ warnings[k].kind \in VariableWarningKinds
             /\ warnings[l].kind \in VariableWarningKinds)
            => DeclaredAt(warnings[k].args[1]) <= DeclaredAt(warnings[l].args[1])

\* C30, amended: every step keeps the diagnostics already in the two lists
\* and appends behind them; validate() never goes back to an earlier pass,
\* nor the loop over the variables to an earlier variable; and what a check
\* of the loop appends is about the variable the loop is at.  The warnings
\* about helper chains are appended before the loop, whatever the place of
\* the consumer they name.
DiagnosticsAreAppendedInOrder ==
    [][/\ Extends(errors, errors')
       /\ Extends(warnings, warnings')
       /\ PassOf(pc') >= PassOf(pc)
       /\ (PassOf(pc') = PassOf(pc) => idx' >= idx)
       /\ (pc \in LoopPositions
            => \A d \in AppendedTo(errors, errors') \cup AppendedTo(warnings, warnings') :
                    d.args[1] = Cur.name)]_vars
\* a warning about the consumer u, declared last, stands before the warning
\* about the helper _x, declared first, and the errors of three passes
\* follow each other
HelperChainWarningComesFirst ==
    /\ pc = "done"
    /\ \E k, l \in 1..Len(warnings) :
            /\ k < l
            /\ warnings[k].kind = "helper_chain" /\ warnings[k].args[1] = Chars("u")
            /\ warnings[l] = DivisionWarning(Chars("_x"), Chars("n"))
    /\ \E j, k, l \in 1..Len(errors) :
            /\ j < k /\ k < l
            /\ errors[j] = UndefinedError(Chars("_x"), Chars("n"))
            /\ errors[k].kind = "unbalanced_at_end"
            /\ errors[l].kind = "undefined_input"
====
